---- MODULE Spec2Model ----
(***************************************************************************)
(* Runtime branch coverage (frontsense): the collector of                  *)
(* src/core/runtime-collector.ts, the sampling gate's double arithmetic,   *)
(* and the test rewrite of src/babel-plugin.ts.                            *)
(***************************************************************************)
EXTENDS Integers, Sequences, FiniteSets, TLC

\* ------------------------------------------------------------------ bounds
\* the clock (performance.now(), in whole ms) runs from 0 to MaxTime
MaxTime == 1
\* recordBranchHit calls made between two clearStats calls
MaxEvents == 3
\* the clock's range, and the calls between two clears, in the rate-limiter
\* specification
MaxRateTime == 4
MaxRateEvents == 4
\* gate evaluations made in the sampling-gate specification
MaxGateCounter == 12
\* executions of instrumented constructs in the rewrite specification
MaxAppCounter == 4
\* recordBranchHit calls between two clears in the switch specification
MaxSwitchEvents == 3
MaxQueryEvents == 1
MaxSelectEvents == 2
MaxCounterEvents == 2
MaxSummaryEvents == 2
MaxRoundTripEvents == 2
MaxNoLocEvents == 8
\* passes of the plugin a build log keeps
MaxPasses == 3
\* recordBranchHit calls made on a page with a component that uses the hook
MaxHookEvents == 2
\* recordBranchHit calls and ms of a run of the two collectors side by side
MaxEmittedEvents == 2
MaxEmittedTime == 3
MaxReports == 2
MaxReportEvents == 2

\* ---------------------------------------------------- IEEE-754 doubles
\* A finite non-negative double is mant * 2^exp, mant a natural number of at
\* most 53 bits held as its bits, least significant first (<<>> is 0).
MantissaBits == 53

RECURSIVE BitsOf(_, _)
BitsOf(n, w) == IF w = 0 THEN <<>> ELSE <<n % 2>> \o BitsOf(n \div 2, w - 1)

RECURSIVE NatBits(_)
NatBits(n) == IF n = 0 THEN <<>> ELSE <<n % 2>> \o NatBits(n \div 2)

RECURSIVE Strip(_)
Strip(bits) ==
  IF bits = <<>> \/ bits[Len(bits)] = 1 THEN bits
  ELSE Strip(SubSeq(bits, 1, Len(bits) - 1))

\* a 53-bit significand from its four 16-bit limbs, most significant first
MantissaOf(limbs) ==
  Strip(BitsOf(limbs[4], 16) \o BitsOf(limbs[3], 16)
        \o BitsOf(limbs[2], 16) \o BitsOf(limbs[1], 16))

\* the double a numeric literal of the configuration denotes
DoubleOf(lit) ==
  CASE lit = "0"    -> [mant |-> <<>>, exp |-> 0]
    [] lit = "0.25" -> [mant |-> MantissaOf(<<16, 0, 0, 0>>), exp |-> -54]
    [] lit = "0.3"  -> [mant |-> MantissaOf(<<19, 13107, 13107, 13107>>), exp |-> -54]
    [] lit = "0.5"  -> [mant |-> MantissaOf(<<16, 0, 0, 0>>), exp |-> -53]
    [] lit = "0.75" -> [mant |-> MantissaOf(<<24, 0, 0, 0>>), exp |-> -53]
    [] lit = "1"    -> [mant |-> MantissaOf(<<16, 0, 0, 0>>), exp |-> -52]

RECURSIVE MulBits(_, _, _)
MulBits(bits, c, carry) ==
  IF bits = <<>> THEN NatBits(carry)
  ELSE LET t == c * Head(bits) + carry
       IN <<t % 2>> \o MulBits(Tail(bits), c, t \div 2)

RECURSIVE IncBits(_)
IncBits(bits) ==
  IF bits = <<>> THEN <<1>>
  ELSE IF Head(bits) = 0 THEN <<1>> \o Tail(bits)
  ELSE <<0>> \o IncBits(Tail(bits))

\* the exact value p * 2^e rounded to 53 significant bits, ties to even
RoundDouble(p, e) ==
  LET len == Len(p)
  IN IF len <= MantissaBits THEN [mant |-> p, exp |-> e]
     ELSE LET drop   == len - MantissaBits
              kept   == SubSeq(p, drop + 1, len)
              guard  == p[drop]
              sticky == \E i \in 1..(drop - 1) : p[i] = 1
              up     == guard = 1 /\ (sticky \/ kept[1] = 1)
          IN [mant |-> IF up THEN IncBits(kept) ELSE kept, exp |-> e + drop]

\* c * r for a counter value c (an integer, exact as a double) and a double r
MulDouble(c, r) == RoundDouble(Strip(MulBits(r.mant, c, 0)), r.exp)

\* x % 1 for x >= 0: the bits below the binary point (exact)
FracDouble(x) ==
  IF x.exp >= 0 THEN [mant |-> <<>>, exp |-> 0]
  ELSE LET k == IF -x.exp < Len(x.mant) THEN -x.exp ELSE Len(x.mant)
       IN [mant |-> Strip(SubSeq(x.mant, 1, k)), exp |-> x.exp]

RECURSIVE Zeros(_)
Zeros(n) == IF n <= 0 THEN <<>> ELSE <<0>> \o Zeros(n - 1)

RECURSIVE LessBits(_, _)
LessBits(a, b) ==
  IF Len(a) # Len(b) THEN Len(a) < Len(b)
  ELSE IF a = <<>> THEN FALSE
  ELSE IF a[Len(a)] # b[Len(b)] THEN a[Len(a)] < b[Len(b)]
  ELSE LessBits(SubSeq(a, 1, Len(a) - 1), SubSeq(b, 1, Len(b) - 1))

\* x < y
LessDouble(x, y) ==
  LET lo == IF x.exp < y.exp THEN x.exp ELSE y.exp
      xa == IF x.mant = <<>> THEN <<>> ELSE Zeros(x.exp - lo) \o x.mant
      ya == IF y.mant = <<>> THEN <<>> ELSE Zeros(y.exp - lo) \o y.mant
  IN LessBits(xa, ya)

\* ------------------------------------------------------------ JS values
\* the values an instrumented test may yield, and JavaScript's truthiness
JSValues == {"true", "false", "0"}

\* the falsy values among those this model writes as their source text
Falsy == {"false", "0", "''", "null", "undefined", "NaN"}

Truthy(v) == v \notin Falsy

\* { ...a, ...b }
Spread(a, b) ==
  [k \in (DOMAIN a) \cup (DOMAIN b) |-> IF k \in DOMAIN b THEN b[k] ELSE a[k]]

\* parseInt of a string that does not start with digits; no record of the
\* model holds a negative number otherwise
NaN == -1

\* parseInt(s, 10) of the decimal strings the ids carry
ParseInt(s) ==
  CASE s = "0" -> 0 [] s = "4" -> 4 [] s = "5" -> 5 [] s = "8" -> 8 [] s = "9" -> 9
    [] s = "12" -> 12 [] s = "45" -> 45 [] s = "50" -> 50
    [] OTHER -> NaN


\* ------------------------------------------------------- branch identifiers
\* A string is held as the list of its ':'-separated segments, which is what
\* branchId.split(':') yields.  A file name is [root, rel]: rel are the
\* segments of the path once process.cwd() and the leading '/' are removed.
createBranchId(fileName, line, column, type, counter) ==
  LET cleanFileName == fileName.rel
      head == SubSeq(cleanFileName, 1, Len(cleanFileName) - 1)
      last == cleanFileName[Len(cleanFileName)]
  IN head \o <<last, ToString(line), ToString(column),
               type \o "#" \o ToString(counter)>>

\* the call sites the instrumented application holds: the arguments the
\* rewrite fixes for each (branchId, type, conditionCode, and true as the
\* fifth argument in a file built with sampling.collectExecutionTime)
CallSites ==
  { [branchId |-> createBranchId([root |-> "cwd", rel |-> <<"Dashboard.tsx">>], 45, 8, "if", 0),
     type |-> "if", conditionCode |-> "(user.isActive)", collectExecutionTime |-> FALSE],
    [branchId |-> createBranchId([root |-> "cwd", rel |-> <<"App.tsx">>], 12, 4, "ternary", 0),
     type |-> "ternary", conditionCode |-> "darkMode", collectExecutionTime |-> TRUE] }

BranchIds == { s.branchId : s \in CallSites }

\* --------------------------------------------------------------- collector
\* A collector is [branchStats, samplingConfig, config, sampleCounter,
\* lastSampleTime]; every method is an operator from the collector (self) to
\* the collector it leaves, with its return value.

\* constructor(config)
NewCollector(config) ==
  [ branchStats    |-> << >>,
    samplingConfig |-> config.sampling,
    config         |-> config,
    sampleCounter  |-> 0,
    lastSampleTime |-> 0 ]

\* the sample rates the configurations of this model carry
RateLiterals == {"0", "0.25", "0.3", "0.5", "0.75", "1"}

\* mutant: (c * sampleRate) % 1 <= sampleRate
GateAcceptsInclusive(c, lit) ==
  LET r == DoubleOf(lit)
  IN ~LessDouble(r, FracDouble(MulDouble(c, r)))

\* (c * sampleRate) % 1 < sampleRate, in double arithmetic
GateAcceptsDouble(c, lit) ==
  LET r == DoubleOf(lit)
  IN LessDouble(FracDouble(MulDouble(c, r)), r)

\* the same, tabulated once for the counter values the model reaches
GateTable ==
  [c \in 1..(MaxEvents + MaxGateCounter + MaxAppCounter + 1) |-> [lit \in RateLiterals |-> GateAcceptsDouble(c, lit)]]

GateAccepts(c, lit) == GateTable[c][lit]

shouldSample(self) ==
  LET c == self.sampleCounter + 1
  IN [ self |-> [self EXCEPT !.sampleCounter = c],
       ret  |-> GateAccepts(c, self.samplingConfig.sampleRate) ]

\* mutant: timeSinceLastSample <= minInterval
isRateLimitedInclusive(self, now) ==
  LET timeSinceLastSample == now - self.lastSampleTime
  IN IF timeSinceLastSample * self.samplingConfig.maxSamplesPerSecond <= 1000
     THEN [self |-> self, ret |-> TRUE]
     ELSE [self |-> [self EXCEPT !.lastSampleTime = now], ret |-> FALSE]

\* timeSinceLastSample < 1000 / maxSamplesPerSecond; times are whole ms and
\* the cap is positive, so the quotient is compared without rounding
isRateLimited(self, now) ==
  LET timeSinceLastSample == now - self.lastSampleTime
  IN IF timeSinceLastSample * self.samplingConfig.maxSamplesPerSecond < 1000
     THEN [self |-> self, ret |-> TRUE]
     ELSE [self |-> [self EXCEPT !.lastSampleTime = now], ret |-> FALSE]

\* the record a first accepted event creates (lines 59-75)
NewBranchHit(branchId, type, conditionCode, now) ==
  [ branchId  |-> branchId,
    file      |-> branchId[1],
    line      |-> ParseInt(branchId[2]),
    column    |-> ParseInt(branchId[3]),
    type      |-> type,
    condition |-> conditionCode,
    hitCount  |-> 0,
    missCount |-> 0,
    timestamp |-> now ]

\* mutant: a falsy result is not counted
AcceptDropsMiss(stats, branchId, type, conditionCode, conditionResult, collectExecutionTime, now, elapsed) ==
  LET had     == IF branchId \in DOMAIN stats THEN stats[branchId]
                 ELSE NewBranchHit(branchId, type, conditionCode, now)
      counted == IF Truthy(conditionResult) THEN [had EXCEPT !.hitCount = @ + 1] ELSE had
  IN Spread(stats, [b \in {branchId} |-> [counted EXCEPT !.timestamp = now]])

\* mutant: missCount is incremented on every event
AcceptCountsBoth(stats, branchId, type, conditionCode, conditionResult, collectExecutionTime, now, elapsed) ==
  LET had     == IF branchId \in DOMAIN stats THEN stats[branchId]
                 ELSE NewBranchHit(branchId, type, conditionCode, now)
      counted == IF Truthy(conditionResult)
                 THEN [had EXCEPT !.hitCount = @ + 1, !.missCount = @ + 1]
                 ELSE [had EXCEPT !.missCount = @ + 1]
  IN Spread(stats, [b \in {branchId} |-> [counted EXCEPT !.timestamp = now]])

\* lines 63-91: the table after an accepted event
Accept(stats, branchId, type, conditionCode, conditionResult, collectExecutionTime, now, elapsed) ==
  LET had     == IF branchId \in DOMAIN stats THEN stats[branchId]
                 ELSE NewBranchHit(branchId, type, conditionCode, now)
      counted == IF Truthy(conditionResult)
                 THEN [had EXCEPT !.hitCount = @ + 1]
                 ELSE [had EXCEPT !.missCount = @ + 1]
      timed   == IF collectExecutionTime
                 THEN Spread(counted, [executionTime |-> elapsed])
                 ELSE counted
      branch  == [timed EXCEPT !.timestamp = now]
  IN Spread(stats, [b \in {branchId} |-> branch])

\* mutant: the record is created before the gates are asked
recordBranchHitCreatesFirst(self, branchId, type, conditionCode, conditionResult, collectExecutionTime, now, elapsed) ==
  LET created == IF branchId \in DOMAIN self.branchStats THEN self
                 ELSE [self EXCEPT !.branchStats =
                         Spread(@, [b \in {branchId} |-> NewBranchHit(branchId, type, conditionCode, now)])]
      gate    == IF self.samplingConfig.enabled THEN shouldSample(created)
                 ELSE [self |-> created, ret |-> TRUE]
      limiter == IF self.samplingConfig.enabled THEN isRateLimited(gate.self, now)
                 ELSE [self |-> gate.self, ret |-> FALSE]
  IN IF ~gate.ret
     THEN [self |-> gate.self, ret |-> conditionResult, path |-> "sampledOut"]
     ELSE IF limiter.ret
     THEN [self |-> limiter.self, ret |-> conditionResult, path |-> "rateLimited"]
     ELSE [ self |-> [limiter.self EXCEPT !.branchStats =
                        Accept(@, branchId, type, conditionCode, conditionResult,
                               collectExecutionTime, now, elapsed)],
            ret  |-> conditionResult,
            path |-> "accepted" ]

\* mutant: a rejected event returns the result coerced to a boolean
recordBranchHitCoerces(self, branchId, type, conditionCode, conditionResult, collectExecutionTime, now, elapsed) ==
  LET gate    == IF self.samplingConfig.enabled THEN shouldSample(self)
                 ELSE [self |-> self, ret |-> TRUE]
      limiter == IF self.samplingConfig.enabled THEN isRateLimited(gate.self, now)
                 ELSE [self |-> gate.self, ret |-> FALSE]
      coerced == IF Truthy(conditionResult) THEN "true" ELSE "false"
  IN IF ~gate.ret
     THEN [self |-> gate.self, ret |-> coerced, path |-> "sampledOut"]
     ELSE IF limiter.ret
     THEN [self |-> limiter.self, ret |-> coerced, path |-> "rateLimited"]
     ELSE [ self |-> [limiter.self EXCEPT !.branchStats =
                        Accept(@, branchId, type, conditionCode, conditionResult,
                               collectExecutionTime, now, elapsed)],
            ret  |-> conditionResult,
            path |-> "accepted" ]

\* recordBranchHit; now is performance.now() at line 51, elapsed the ms that
\* pass until line 86 reads the clock again.  path names the return taken.
recordBranchHit(self, branchId, type, conditionCode, conditionResult, collectExecutionTime, now, elapsed) ==
  LET gate    == IF self.samplingConfig.enabled THEN shouldSample(self)
                 ELSE [self |-> self, ret |-> TRUE]
      limiter == IF self.samplingConfig.enabled THEN isRateLimited(gate.self, now)
                 ELSE [self |-> gate.self, ret |-> FALSE]
  IN IF ~gate.ret
     THEN [self |-> gate.self, ret |-> conditionResult, path |-> "sampledOut"]
     ELSE IF limiter.ret
     THEN [self |-> limiter.self, ret |-> conditionResult, path |-> "rateLimited"]
     ELSE [ self |-> [limiter.self EXCEPT !.branchStats =
                        Accept(@, branchId, type, conditionCode, conditionResult,
                               collectExecutionTime, now, elapsed)],
            ret  |-> conditionResult,
            path |-> "accepted" ]

\* { ...this.branchStats }: a new object with the table's keys, holding the
\* table's own record objects
getBranchStats(self) ==
  [ self |-> self,
    ret  |-> [keys |-> DOMAIN self.branchStats, shared |-> DOMAIN self.branchStats, own |-> << >>] ]

\* mutant: the rate limiter's time is not reset
clearStatsKeepsLimiter(self) ==
  [self EXCEPT !.branchStats = << >>, !.sampleCounter = 0]

\* mutant: the table is not emptied
clearStatsKeepsTable(self) ==
  [self EXCEPT !.sampleCounter = 0, !.lastSampleTime = 0]

clearStats(self) ==
  [self EXCEPT !.branchStats = << >>, !.sampleCounter = 0, !.lastSampleTime = 0]

\* mutant: a new configuration restarts the gate's counter
updateConfigRestartsGate(self, newConfig) ==
  [self EXCEPT
     !.config = Spread(@, newConfig),
     !.samplingConfig =
        Spread(@, IF "sampling" \in DOMAIN newConfig THEN newConfig.sampling ELSE << >>),
     !.sampleCounter = 0]

updateConfig(self, newConfig) ==
  [self EXCEPT
     !.config = Spread(@, newConfig),
     !.samplingConfig =
        Spread(@, IF "sampling" \in DOMAIN newConfig THEN newConfig.sampling ELSE << >>)]

importData(self, data) ==
  [self EXCEPT !.branchStats = Spread(@, data.branchStats)]


\* ------------------------------------- the collector the Vite plugin emits
\* generateCollectorScript's class, as operators on its fields
emittedConstructor(cfg) ==
  [ branchStats    |-> << >>,
    samplingConfig |-> IF "sampling" \in DOMAIN cfg THEN cfg.sampling ELSE << >>,
    config         |-> cfg,
    sampleCounter  |-> 0,
    lastSampleTime |-> 0 ]

\* recordBranchHit, shouldSample and isRateLimited of the emitted class
\* repeat the core's statement by statement
emittedRecordBranchHit(self, branchId, type, conditionCode, conditionResult, collectExecutionTime, now, elapsed) ==
  recordBranchHit(self, branchId, type, conditionCode, conditionResult, collectExecutionTime, now, elapsed)

\* clearStats: () => { this.branchStats = {}; this.sampleCounter = 0; }
emittedClearStats(self) ==
  [self EXCEPT !.branchStats = << >>, !.sampleCounter = 0]

\* updateConfig: (newConfig) => { this.config = { ...this.config, ...newConfig }; }
emittedUpdateConfig(self, newConfig) ==
  [self EXCEPT !.config = Spread(@, newConfig)]

\* getExecutionSummary (summary and fileStats)
\* mutant: a hot record is counted as a normal one too
FileStatsOfCountsHotTwice(stats, file) ==
  LET of == { b \in DOMAIN stats : stats[b].file = file }
      dead == { b \in of : stats[b].hitCount = 0 }
      hot  == { b \in of \ dead : stats[b].hitCount > 100 }
      cold == { b \in (of \ dead) \ hot : stats[b].hitCount < 5 }
  IN [ total |-> Cardinality(of),
       hit   |-> Cardinality((of \ dead) \ cold),
       dead  |-> Cardinality(dead),
       hot   |-> Cardinality(hot),
       cold  |-> Cardinality(cold) ]

FileStatsOf(stats, file) ==
  LET of == { b \in DOMAIN stats : stats[b].file = file }
      dead == { b \in of : stats[b].hitCount = 0 }
      hot  == { b \in of \ dead : stats[b].hitCount > 100 }
      cold == { b \in (of \ dead) \ hot : stats[b].hitCount < 5 }
  IN [ total |-> Cardinality(of),
       hit   |-> Cardinality(((of \ dead) \ hot) \ cold),
       dead  |-> Cardinality(dead),
       hot   |-> Cardinality(hot),
       cold  |-> Cardinality(cold) ]

\* Object.entries(fileStats): the files in the order of the table's keys,
\* which the table as a function does not keep; one order is taken
RECURSIVE EntriesOf(_)
EntriesOf(files) ==
  IF files = {} THEN << >>
  ELSE LET f == CHOOSE x \in files : TRUE IN <<f>> \o EntriesOf(files \ {f})

\* Array.prototype.sort((a, b) => count(b) - count(a)): by count, largest
\* first, entries of equal count in the order they had
RECURSIVE InsertByCount(_, _, _)
InsertByCount(sorted, f, count) ==
  IF sorted = << >> THEN <<f>>
  ELSE IF count[Head(sorted)] >= count[f] THEN <<Head(sorted)>> \o InsertByCount(Tail(sorted), f, count)
  ELSE <<f>> \o sorted

RECURSIVE SortByCount(_, _)
SortByCount(entries, count) ==
  IF entries = << >> THEN << >>
  ELSE InsertByCount(SortByCount(SubSeq(entries, 1, Len(entries) - 1), count),
                     entries[Len(entries)], count)

\* slice(0, n)
Slice(s, n) == SubSeq(s, 1, IF Len(s) < n THEN Len(s) ELSE n)

\* mutant: the list is not truncated
topDeadCodeFilesAll(fileStats) ==
  LET sorted == SortByCount(EntriesOf({ f \in DOMAIN fileStats : fileStats[f].dead > 0 }),
                            [f \in DOMAIN fileStats |-> fileStats[f].dead])
  IN [ i \in 1..Len(sorted) |->
         [ file |-> sorted[i], deadBranches |-> fileStats[sorted[i]].dead,
           totalBranches |-> fileStats[sorted[i]].total ] ]

\* filter(dead > 0), sort by dead descending, slice(0, 10), map
topDeadCodeFiles(fileStats) ==
  LET sorted == Slice(SortByCount(EntriesOf({ f \in DOMAIN fileStats : fileStats[f].dead > 0 }),
                                  [f \in DOMAIN fileStats |-> fileStats[f].dead]), 10)
  IN [ i \in 1..Len(sorted) |->
         [ file |-> sorted[i], deadBranches |-> fileStats[sorted[i]].dead,
           totalBranches |-> fileStats[sorted[i]].total ] ]

\* filter(hot > 0), sort by hot descending, slice(0, 10), map
topHotPathFiles(fileStats) ==
  LET sorted == Slice(SortByCount(EntriesOf({ f \in DOMAIN fileStats : fileStats[f].hot > 0 }),
                                  [f \in DOMAIN fileStats |-> fileStats[f].hot]), 10)
  IN [ i \in 1..Len(sorted) |->
         [ file |-> sorted[i], hotBranches |-> fileStats[sorted[i]].hot,
           totalBranches |-> fileStats[sorted[i]].total ] ]

\* mutant: the rate is computed for an empty table too
getExecutionSummaryDividesAlways(self) ==
  LET stats == self.branchStats
      ids   == DOMAIN stats
      files == { stats[b].file : b \in ids }
  IN [ summary |-> [ totalBranches |-> Cardinality(ids),
                     hitBranches   |-> Cardinality({ b \in ids : stats[b].hitCount > 0 }),
                     deadBranches  |-> Cardinality({ b \in ids : stats[b].hitCount = 0 }),
                     hotBranches   |-> Cardinality({ b \in ids : stats[b].hitCount > 100 }),
                     coldBranches  |-> Cardinality({ b \in ids : stats[b].hitCount > 0 /\ stats[b].hitCount < 5 }),
                     coverageRate  |-> <<Cardinality({ b \in ids : stats[b].hitCount > 0 }), Cardinality(ids)>> ],
       fileStats |-> [ f \in files |-> FileStatsOf(stats, f) ] ]

getExecutionSummary(self) ==
  LET stats == self.branchStats
      ids   == DOMAIN stats
      totalBranches == Cardinality(ids)
      hitBranches   == Cardinality({ b \in ids : stats[b].hitCount > 0 })
      coldBranches  == Cardinality({ b \in ids : stats[b].hitCount > 0 /\ stats[b].hitCount < 5 })
      hotBranches   == Cardinality({ b \in ids : stats[b].hitCount > 100 })
      deadBranches  == Cardinality({ b \in ids : stats[b].hitCount = 0 })
      files == { stats[b].file : b \in ids }
  IN [ summary |-> [ totalBranches |-> totalBranches,
                     hitBranches   |-> hitBranches,
                     deadBranches  |-> deadBranches,
                     hotBranches   |-> hotBranches,
                     coldBranches  |-> coldBranches,
                     \* hitBranches / totalBranches, as the pair <<num, den>>
                     coverageRate  |-> IF totalBranches > 0
                                       THEN <<hitBranches, totalBranches>>
                                       ELSE <<0, 1>> ],
       fileStats |-> [ f \in files |-> FileStatsOf(stats, f) ],
       topDeadCodeFiles |-> topDeadCodeFiles([ f \in files |-> FileStatsOf(stats, f) ]),
       topHotPathFiles  |-> topHotPathFiles([ f \in files |-> FileStatsOf(stats, f) ]) ]

\* ------------------------------------------------------------------ state
VARIABLES
  branchStats,     \* this.branchStats
  samplingConfig,  \* this.samplingConfig
  config,          \* this.config
  sampleCounter,   \* this.sampleCounter
  lastSampleTime,  \* this.lastSampleTime
  clock,           \* performance.now(), whole ms
  appCounter,      \* the application's own counter, which a test may increment
  last,            \* the last call made: its arguments, return value and path
  window,          \* the page's global object:
                   \*   coverage   the methods of window.__RUNTIME_COVERAGE__
                   \*              ({} while it is undefined)
                   \*   script     the collector script element: "none", "loading",
                   \*              "loaded"
                   \*   reporting  the analytics timer and unload listener are set
                   \*   warnings   console.warn calls made
                   \*   uncaught   errors that reached the page's error handler
  held,            \* what a caller of getBranchStats holds: the object returned
  sessionId,       \* this.sessionId
  emitted,         \* the collector of the script the Vite plugin emits, given the
                   \*   calls the core collector is given: self, its fields, and
                   \*   path, the return its last recordBranchHit took
  hook,            \* the state of a component's useRuntimeCoverage: branchStats,
                   \*   summary (<< >> is null), isCollecting
  history          \* what the calls made so far were (read by no operation):
                   \*   events     recordBranchHit calls since the last clear
                   \*   calls      while lossless, those calls per id, by truthiness
                   \*   lossless   since the last clear sampling was disabled at
                   \*              every recordBranchHit call and nothing was imported
                   \*   accepted   ids with an accepted event since the last clear
                   \*   imported   ids imported since the last clear
                   \*   prevAccept time of the last event recorded under the current
                   \*              sampling settings (-1: none), ever and since the
                   \*              last clear
                   \*   gateTrace  the gate's decisions at the current sample rate
                   \*              since the last clear
                   \*   ran        ids of the switch cases whose body began to
                   \*              execute since the last clear

collectorVars == <<branchStats, samplingConfig, config, sampleCounter, lastSampleTime>>
pageVars == <<window, held, sessionId, hook, emitted>>
vars == <<branchStats, samplingConfig, config, sampleCounter, lastSampleTime, clock, appCounter, last, window, held, sessionId, hook, emitted, history>>

Self ==
  [ branchStats    |-> branchStats,
    samplingConfig |-> samplingConfig,
    config         |-> config,
    sampleCounter  |-> sampleCounter,
    lastSampleTime |-> lastSampleTime ]

Is(self) ==
  /\ branchStats = self.branchStats
  /\ samplingConfig = self.samplingConfig
  /\ config = self.config
  /\ sampleCounter = self.sampleCounter
  /\ lastSampleTime = self.lastSampleTime

Becomes(self) ==
  /\ branchStats' = self.branchStats
  /\ samplingConfig' = self.samplingConfig
  /\ config' = self.config
  /\ sampleCounter' = self.sampleCounter
  /\ lastSampleTime' = self.lastSampleTime

\* --------------------------------------------------------------- inputs
\* babel-plugin.ts DEFAULT_CONFIG.sampling, and a sampling configuration of
\* the kind a production build passes
DefaultSampling ==
  [enabled |-> FALSE, sampleRate |-> "1", maxSamplesPerSecond |-> 1000, collectExecutionTime |-> FALSE]

ProductionSampling ==
  [enabled |-> TRUE, sampleRate |-> "0.5", maxSamplesPerSecond |-> 500, collectExecutionTime |-> FALSE]

ConfigOf(sampling) == [enabled |-> TRUE, sampling |-> sampling]

InitConfigs == { ConfigOf(DefaultSampling), ConfigOf(ProductionSampling) }

\* the partial configurations updateConfig is given
UpdateInputs ==
  { [sampling |-> [enabled |-> TRUE]],
    [sampling |-> [enabled |-> FALSE]],
    [sampling |-> [sampleRate |-> "1"]],
    [enabled |-> TRUE] }

\* a BranchHit as another session exported it
ImportedHit(site, hitCount, missCount, timestamp) ==
  [NewBranchHit(site.branchId, site.type, site.conditionCode, timestamp)
     EXCEPT !.hitCount = hitCount, !.missCount = missCount]

\* the data importData is given: a table of one record that was never hit
ImportInputs ==
  { [branchStats |-> [b \in {site.branchId} |-> ImportedHit(site, 0, 0, 0)]]
      : site \in { s \in CallSites : s.type = "if" } }

\* ---------------------------------------------------------------- history
NoAccept == [ever |-> -1, sinceClear |-> -1]

NoHistory ==
  [ events |-> 0, calls |-> << >>, lossless |-> TRUE, accepted |-> {},
    imported |-> {}, prevAccept |-> NoAccept, gateTrace |-> << >>, ran |-> {} ]

CallsOf(h, b) == IF b \in DOMAIN h.calls THEN h.calls[b] ELSE [truthy |-> 0, falsy |-> 0]

\* the history after one recordBranchHit call that took `path`, made at `now`
\* with sampling enabled or not
Logged(h, enabled, b, conditionResult, path, now) ==
  LET stillLossless == h.lossless /\ ~enabled
      counted == IF Truthy(conditionResult)
                 THEN [CallsOf(h, b) EXCEPT !.truthy = @ + 1]
                 ELSE [CallsOf(h, b) EXCEPT !.falsy = @ + 1]
  IN [ events     |-> h.events + 1,
       calls      |-> IF stillLossless THEN Spread(h.calls, [x \in {b} |-> counted]) ELSE << >>,
       lossless   |-> stillLossless,
       accepted   |-> IF path = "accepted" THEN h.accepted \cup {b} ELSE h.accepted,
       imported   |-> h.imported,
       prevAccept |-> IF path = "accepted" /\ enabled
                      THEN [ever |-> now, sinceClear |-> now]
                      ELSE h.prevAccept,
       gateTrace  |-> IF enabled THEN Append(h.gateTrace, path # "sampledOut")
                      ELSE h.gateTrace,
       ran        |-> h.ran ]

\* ------------------------------------------------------------- the page
\* initializeGlobalInterface: the methods window.__RUNTIME_COVERAGE__ gets
initializeGlobalInterface ==
  {"recordBranchHit", "getBranchStats", "getExecutionSummary", "clearStats", "updateConfig"}

\* config.sendToAnalytics && config.analyticsEndpoint
WantsAnalytics(cfg) ==
  /\ "sendToAnalytics" \in DOMAIN cfg /\ cfg.sendToAnalytics
  /\ "analyticsEndpoint" \in DOMAIN cfg /\ cfg.analyticsEndpoint # ""

\* a page on which nothing of the library has run
EmptyWindow ==
  [coverage |-> {}, script |-> "none", reporting |-> FALSE, warnings |-> 0, uncaught |-> 0]

\* what the constructor does to the page (lines 16-22)
Constructed(w, cfg) ==
  [w EXCEPT !.coverage = initializeGlobalInterface, !.reporting = WantsAnalytics(cfg)]

\* generateSessionId
generateSessionId(now, random) == "session_" \o ToString(now) \o "_" \o random

\* useRuntimeCoverage's state as useState makes it: branchStats {}, summary
\* null (the empty list), isCollecting false
NoHookState == [branchStats |-> << >>, summary |-> << >>, isCollecting |-> FALSE]

\* a caller that holds nothing
NoCopy == [keys |-> {}, shared |-> {}, own |-> << >>]

\* An object a caller got from getBranchStats has the keys `keys`; under the
\* keys in `shared` it holds the very record objects of the collector's
\* table, under the others records of its own.  What the caller reads:
ReadCopy(h, table) ==
  [b \in h.keys |-> IF b \in h.shared THEN table[b] ELSE h.own[b]]

\* the collector replaced or dropped its record objects for `ids`: the
\* caller's object keeps the old ones, which the table no longer holds
Detached(h, table, ids) ==
  LET gone == h.shared \cap ids
  IN [ keys   |-> h.keys,
       shared |-> h.shared \ gone,
       own    |-> Spread(h.own, [b \in gone |-> table[b]]) ]

\* ---------------------------------------------------------------- actions
InitWith(configs) ==
  /\ \E cfg \in configs :
       /\ Is(NewCollector(cfg))
       /\ window = Constructed(EmptyWindow, cfg)
       /\ emitted = [self |-> emittedConstructor(cfg), path |-> "none"]
  /\ held = NoCopy
  /\ hook = NoHookState
  /\ sessionId = generateSessionId(0, "k3x9q2m1z")
  /\ clock = 0
  /\ appCounter = 0
  /\ last = [op |-> "constructor"]
  /\ history = NoHistory

Init == InitWith(InitConfigs)

\* one recordBranchHit call from a call site; maxCalls bounds the calls made
\* since the last clear.  The call returns within the clock's resolution:
\* line 86 reads the time line 51 read.
RecordStep(site, conditionResult, maxCalls) ==
  LET b == site.branchId
      r == recordBranchHit(Self, b, site.type, site.conditionCode, conditionResult, site.collectExecutionTime, clock, 0)
  IN /\ history.events < maxCalls
     /\ Becomes(r.self)
     /\ last' = [ op |-> "recordBranchHit", branchId |-> b,
                  conditionResult |-> conditionResult, now |-> clock,
                  ret |-> r.ret, path |-> r.path ]
     /\ history' = Logged(history, samplingConfig.enabled, b, conditionResult, r.path, clock)
     /\ UNCHANGED <<clock, appCounter, pageVars>>

CallRecordBranchHit(site, conditionResult) ==
  RecordStep(site, conditionResult, MaxEvents)

CallClearStats ==
  /\ Becomes(clearStats(Self))
  /\ last' = [op |-> "clearStats"]
  /\ history' = [NoHistory EXCEPT !.prevAccept.ever = history.prevAccept.ever]
  /\ held' = Detached(held, branchStats, DOMAIN branchStats)
  /\ UNCHANGED <<clock, appCounter, window, sessionId, hook, emitted>>

CallUpdateConfig(newConfig) ==
  LET after == updateConfig(Self, newConfig)
  IN /\ Becomes(after)
     /\ last' = [op |-> "updateConfig"]
     /\ history' = [history EXCEPT
          !.prevAccept = IF after.samplingConfig # samplingConfig THEN NoAccept ELSE @,
          !.gateTrace = IF after.samplingConfig.sampleRate # samplingConfig.sampleRate
                        THEN << >> ELSE @]
     /\ UNCHANGED <<clock, appCounter, pageVars>>

CallImportData(data) ==
  /\ Becomes(importData(Self, data))
  /\ last' = [op |-> "importData"]
  /\ history' = [history EXCEPT !.calls = << >>, !.lossless = FALSE,
                                !.imported = @ \cup DOMAIN data.branchStats]
  /\ held' = Detached(held, branchStats, DOMAIN data.branchStats)
  /\ UNCHANGED <<clock, appCounter, window, sessionId, hook, emitted>>

CallGetExecutionSummary ==
  /\ last' = [op |-> "getExecutionSummary", ret |-> getExecutionSummary(Self)]
  /\ UNCHANGED <<collectorVars, clock, appCounter, pageVars, history>>

\* a millisecond passes
TickTo(maxTime) ==
  /\ clock < maxTime
  /\ clock' = clock + 1
  /\ last' = [op |-> "tick"]
  /\ UNCHANGED <<collectorVars, appCounter, pageVars, history>>

Tick == TickTo(MaxTime)

Next ==
  \/ \E site \in CallSites, v \in JSValues : CallRecordBranchHit(site, v)
  \/ CallClearStats
  \/ \E newConfig \in UpdateInputs : CallUpdateConfig(newConfig)
  \/ \E data \in ImportInputs : CallImportData(data)
  \/ CallGetExecutionSummary
  \/ Tick

Spec == Init /\ [][Next]_vars

\* ------------------------------------------- the rate limiter over time
RateSampling(rate, cap) ==
  [enabled |-> TRUE, sampleRate |-> rate, maxSamplesPerSecond |-> cap, collectExecutionTime |-> FALSE]

RateConfigs ==
  { ConfigOf(RateSampling("1", 1000)), ConfigOf(RateSampling("1", 500)),
    ConfigOf(RateSampling("0.5", 500)) }

RateInit == InitWith(RateConfigs)

RateRecord(site) == RecordStep(site, "true", MaxRateEvents)

RateTick == TickTo(MaxRateTime)

RateNext ==
  \/ \E site \in CallSites : RateRecord(site)
  \/ CallClearStats
  \/ RateTick

SpecRate == RateInit /\ [][RateNext]_vars

\* --------------------------------------------- the sampling gate alone
GateConfigs == { ConfigOf(RateSampling(rate, 1000)) : rate \in RateLiterals }

GateInit == InitWith(GateConfigs)

GateRecord(site, conditionResult) == RecordStep(site, conditionResult, MaxGateCounter)

GateNext ==
  \/ \E site \in { s \in CallSites : s.type = "if" }, v \in {"true", "false"} : GateRecord(site, v)
  \/ Tick

SpecGate == GateInit /\ [][GateNext]_vars


\* ------------------------------------------------------------ the rewrite
\* Expressions are trees: the two leaves an application's test may be, and
\* the two nodes the plugin builds around them.
Identifier(name) == [node |-> "Identifier", name |-> name]

\* a call of an application function with a side effect
callExpression(callee) == [node |-> "CallExpression", callee |-> callee]

sequenceExpression(expressions) == [node |-> "SequenceExpression", expressions |-> expressions]

\* a string, numeric or boolean literal, by its source text
literal(value) == [node |-> "Literal", value |-> value]

expressionStatement(expression) == [node |-> "ExpressionStatement", expression |-> expression]

breakStatement == [node |-> "BreakStatement"]

\* a case of a switch; the default case has no test
switchCase(test, consequent) == [hasTest |-> TRUE, test |-> test, consequent |-> consequent]

defaultCase(consequent) == [hasTest |-> FALSE, consequent |-> consequent]

\* window.__RUNTIME_COVERAGE__.recordBranchHit(branchId, type, conditionCode,
\* conditionResult[, true])
createInstrumentationCall(branchId, conditionCode, conditionResult, type, collectExecutionTime) ==
  [ node |-> "RecordBranchHit", branchId |-> branchId, type |-> type,
    conditionCode |-> conditionCode, conditionResult |-> conditionResult,
    collectExecutionTime |-> collectExecutionTime ]

\* Program.enter, for a file no exclude pattern matches
ProgramEnter(fileName, pluginConfig) ==
  [fileName |-> fileName, branchCounter |-> 0, config |-> pluginConfig]

\* what every visitor puts in place of the tested expression: the sequence
\* (recordBranchHit(..., test), test), with the id of the visited node's
\* position and the file's next counter value
InstrumentedTest(test, loc, conditionCode, type, context) ==
  sequenceExpression(<<
    createInstrumentationCall(
      createBranchId(context.fileName, loc.line, loc.column, type, context.branchCounter),
      conditionCode, test, type, context.config.sampling.collectExecutionTime),
    test >>)

\* mutant: every id takes two counter values
CountedTwice(context) == [context EXCEPT !.branchCounter = @ + 2]

\* context.branchCounter++
Counted(context) == [context EXCEPT !.branchCounter = @ + 1]

\* mutant: a node without position counts as the first line
StartOfDefaultsToLineOne(node) ==
  IF "loc" \in DOMAIN node THEN node.loc ELSE [line |-> 1, column |-> 0]

\* path.node.loc?.start || { line: 0, column: 0 }
StartOf(node) ==
  IF "loc" \in DOMAIN node THEN node.loc ELSE [line |-> 0, column |-> 0]

IfStatement(node, context) ==
  [ node    |-> [node EXCEPT !.test = InstrumentedTest(node.test, StartOf(node), node.conditionCode, "if", context)],
    context |-> Counted(context) ]

ConditionalExpression(node, context) ==
  [ node    |-> [node EXCEPT !.test = InstrumentedTest(node.test, StartOf(node), node.conditionCode, "ternary", context)],
    context |-> Counted(context) ]

\* node.left is the tested operand
LogicalExpression(node, context) ==
  IF node.operator # "&&" /\ node.operator # "||"
  THEN [node |-> node, context |-> context]
  ELSE [ node    |-> [node EXCEPT !.left = InstrumentedTest(node.left, StartOf(node), node.conditionCode, "logical", context)],
         context |-> Counted(context) ]

\* the container's own position and source make the id and the condition
\* code; the expression it holds is rewritten in place
JSXExpressionContainer(node, context) ==
  LET expression == node.expression
  IN IF expression.node = "LogicalExpression" /\ expression.operator = "&&"
     THEN [ node    |-> [node EXCEPT !.expression.left =
                           InstrumentedTest(expression.left, StartOf(node), node.conditionCode, "jsx-conditional", context)],
            context |-> Counted(context) ]
     ELSE IF expression.node = "ConditionalExpression"
     THEN [ node    |-> [node EXCEPT !.expression.test =
                           InstrumentedTest(expression.test, StartOf(node), node.conditionCode, "jsx-ternary", context)],
            context |-> Counted(context) ]
     ELSE [node |-> node, context |-> context]

\* path.getSource().match(/case\s+([^:]+):/)?.[1] || 'unknown': the label of
\* the first case of the switch, whichever case is being instrumented
FirstCaseLabel(node) ==
  LET tested == { j \in 1..Len(node.cases) : node.cases[j].hasTest }
  IN IF tested = {} \/ "loc" \notin DOMAIN node THEN "unknown"
     ELSE node.cases[CHOOSE j \in tested : \A k \in tested : j <= k].test.value

\* mutant: the case's test is rewritten like the test of an if
RECURSIVE InstrumentCaseTests(_, _, _, _)
InstrumentCaseTests(node, j, label, context) ==
  IF j > Len(node.cases) THEN [node |-> node, context |-> context]
  ELSE IF ~node.cases[j].hasTest THEN InstrumentCaseTests(node, j + 1, label, context)
  ELSE InstrumentCaseTests(
         [node EXCEPT !.cases[j].test =
            InstrumentedTest(node.cases[j].test, StartOf(node), "case " \o label, "switch-case", context)],
         j + 1, label, Counted(context))

SwitchStatementInstrumentsTests(node, context) ==
  InstrumentCaseTests(node, 1, FirstCaseLabel(node), context)

\* cases.forEach from the j-th case on: a recordBranchHit call, given the
\* case's test as the result, is put first in the body of each case that has
\* a test
RECURSIVE InstrumentCases(_, _, _, _)
InstrumentCases(node, j, label, context) ==
  IF j > Len(node.cases) THEN [node |-> node, context |-> context]
  ELSE IF ~node.cases[j].hasTest THEN InstrumentCases(node, j + 1, label, context)
  ELSE LET caseId == createBranchId(context.fileName, StartOf(node).line, StartOf(node).column, "switch-case", context.branchCounter)
           instrumentation == expressionStatement(
             createInstrumentationCall(caseId, "case " \o label, node.cases[j].test, "switch-case",
                                       context.config.sampling.collectExecutionTime))
       IN InstrumentCases([node EXCEPT !.cases[j].consequent = <<instrumentation>> \o @],
                          j + 1, label, Counted(context))

SwitchStatement(node, context) == InstrumentCases(node, 1, FirstCaseLabel(node), context)

\* the visitor of an expression node
VisitExpression(node, context) ==
  CASE node.node = "ConditionalExpression" -> ConditionalExpression(node, context)
    [] node.node = "LogicalExpression"     -> LogicalExpression(node, context)
    [] OTHER                               -> [node |-> node, context |-> context]

\* the traversal of one construct: a node's visitor runs before the visitors
\* of the nodes below it, so the expression in a JSX container is visited
\* after the container's visitor rewrote it
Traverse(node, context) ==
  CASE node.node = "IfStatement" -> IfStatement(node, context)
    [] node.node = "SwitchStatement" -> SwitchStatement(node, context)
    [] node.node = "JSXExpressionContainer" ->
         LET outer == JSXExpressionContainer(node, context)
             inner == VisitExpression(outer.node.expression, outer.context)
         IN [ node    |-> [outer.node EXCEPT !.expression = inner.node],
              context |-> inner.context ]
    [] OTHER -> VisitExpression(node, context)

RECURSIVE TraverseBody(_, _)
TraverseBody(body, context) ==
  IF body = << >> THEN << >>
  ELSE LET first == Traverse(Head(body), context)
       IN <<first.node>> \o TraverseBody(Tail(body), first.context)

\* the plugin applied to a file
Transform(file, pluginConfig) ==
  TraverseBody(file.body, ProgramEnter(file.fileName, pluginConfig))

\* the expression a construct tests
TestOf(node) ==
  CASE node.node = "LogicalExpression"       -> node.left
    [] node.node = "JSXExpressionContainer" ->
         IF node.expression.node = "LogicalExpression"
         THEN node.expression.left ELSE node.expression.test
    [] OTHER -> node.test

\* ----------------------------------------------- running rewritten code
At(line, column) == [line |-> line, column |-> column]

\* the build's plugin options
PluginConfig == [enabled |-> TRUE, sampling |-> DefaultSampling]

\* the application's files: one construct of every kind the plugin rewrites,
\* testing next(), a function that increments a counter and tells whether it
\* is odd, or testing a plain identifier
SourceFiles ==
  { [ fileName |-> [root |-> "cwd", rel |-> <<"Counter.tsx">>],
      body |-> <<
        [ node |-> "IfStatement", loc |-> At(4, 0), conditionCode |-> "(next())",
          test |-> callExpression("next") ],
        [ node |-> "ConditionalExpression", loc |-> At(8, 4), conditionCode |-> "next()",
          test |-> callExpression("next") ],
        [ node |-> "LogicalExpression", operator |-> "||", loc |-> At(9, 4),
          conditionCode |-> "next() || fallback", left |-> callExpression("next") ],
        [ node |-> "JSXExpressionContainer", loc |-> At(12, 4),
          conditionCode |-> "{next() && <Badge />}",
          expression |-> [ node |-> "LogicalExpression", operator |-> "&&", loc |-> At(12, 5),
                           conditionCode |-> "next() && <Badge />",
                           left |-> callExpression("next") ] ],
        [ node |-> "JSXExpressionContainer", loc |-> At(45, 4),
          conditionCode |-> "{next()",
          expression |-> [ node |-> "ConditionalExpression", loc |-> At(45, 5),
                           conditionCode |-> "next()",
                           test |-> callExpression("next") ] ] >> ],
    [ fileName |-> [root |-> "cwd", rel |-> <<"Dashboard.tsx">>],
      body |-> <<
        [ node |-> "IfStatement", loc |-> At(45, 8), conditionCode |-> "(user.isActive)",
          test |-> Identifier("user.isActive") ],
        [ node |-> "LogicalExpression", operator |-> "&&", loc |-> At(50, 8),
          conditionCode |-> "user.isActive && user.name", left |-> Identifier("user.isActive") ] >> ] }

\* the files as the build leaves them
BuiltSources == [file \in SourceFiles |-> Transform(file, PluginConfig)]

\* the evaluation of an expression at time now, where identifiers hold env:
\* st carries the collector, the methods of window.__RUNTIME_COVERAGE__, the
\* application's counter, the value yielded, how many times a test was
\* evaluated, the recordBranchHit calls made, and whether a TypeError was
\* raised.  The callee window.__RUNTIME_COVERAGE__.recordBranchHit is
\* evaluated before the arguments: on an undefined global it raises at once.
RECURSIVE Evaluate(_, _, _, _)
RECURSIVE EvaluateAll(_, _, _, _)
Evaluate(expr, st, env, now) ==
  CASE expr.node = "Identifier" ->
         [st EXCEPT !.value = env, !.evaluations = @ + 1]
    [] expr.node = "Literal" ->
         [st EXCEPT !.value = expr.value]
    [] expr.node = "CallExpression" ->
         [st EXCEPT !.appCounter = @ + 1,
                    !.value = IF (st.appCounter + 1) % 2 = 1 THEN "true" ELSE "false",
                    !.evaluations = @ + 1]
    [] expr.node = "SequenceExpression" ->
         EvaluateAll(expr.expressions, st, env, now)
    [] expr.node = "RecordBranchHit" ->
         LET arg == Evaluate(expr.conditionResult, st, env, now)
             r   == recordBranchHit(arg.self, expr.branchId, expr.type, expr.conditionCode, arg.value, expr.collectExecutionTime, now, 0)
         IN IF "recordBranchHit" \notin st.coverage THEN [st EXCEPT !.raised = TRUE]
            ELSE IF arg.raised THEN arg
            ELSE [arg EXCEPT !.self = r.self, !.value = r.ret,
                             !.log = Append(@, [ enabled |-> arg.self.samplingConfig.enabled,
                                                 branchId |-> expr.branchId,
                                                 conditionResult |-> arg.value,
                                                 path |-> r.path ])]

\* a sequence expression evaluates its operands in order and yields the last
EvaluateAll(expressions, st, env, now) ==
  IF expressions = << >> \/ st.raised THEN st
  ELSE EvaluateAll(Tail(expressions), Evaluate(Head(expressions), st, env, now), env, now)

RECURSIVE LoggedAll(_, _, _)
LoggedAll(h, log, now) ==
  IF log = << >> THEN h
  ELSE LET c == Head(log)
       IN LoggedAll(Logged(h, c.enabled, c.branchId, c.conditionResult, c.path, now), Tail(log), now)

\* the state an evaluation starts from
StartOfEvaluation ==
  [ self |-> Self, coverage |-> window.coverage, appCounter |-> appCounter,
    value |-> "undefined", evaluations |-> 0, log |-> << >>, raised |-> FALSE ]

\* one execution of the i-th construct of a file, as rewritten by the plugin;
\* last keeps, beside what the rewritten test did, what the original test
\* does from the same state
ExecConstruct(file, i, env) ==
  LET start     == StartOfEvaluation
      original  == Evaluate(TestOf(file.body[i]), start, env, clock)
      rewritten == Evaluate(TestOf(BuiltSources[file][i]), start, env, clock)
  IN /\ appCounter < MaxAppCounter
     /\ history.events < MaxAppCounter
     /\ Becomes(rewritten.self)
     /\ appCounter' = rewritten.appCounter
     /\ last' = [ op |-> "exec", construct |-> file.body[i].node,
                  evaluations |-> rewritten.evaluations, value |-> rewritten.value,
                  recorded |-> Len(rewritten.log), raised |-> rewritten.raised,
                  original |-> [ evaluations |-> original.evaluations,
                                 value |-> original.value,
                                 appCounter |-> original.appCounter ] ]
     /\ history' = LoggedAll(history, rewritten.log, clock)
     /\ UNCHANGED <<clock, pageVars>>

ExecNext ==
  \/ \E file \in SourceFiles : \E i \in 1..Len(file.body), env \in JSValues :
       ExecConstruct(file, i, env)
  \/ CallClearStats
  \/ Tick

SpecExec == Init /\ [][ExecNext]_vars

\* ------------------------------------------------------- switch statements
\* files that hold one switch statement each
SwitchFiles ==
  { [ fileName |-> [root |-> "cwd", rel |-> <<"Roles.tsx">>],
      body |-> <<
        [ node |-> "SwitchStatement", loc |-> At(9, 4), discriminant |-> Identifier("role"),
          cases |-> << switchCase(literal("'admin'"), <<breakStatement>>),
                       switchCase(literal("'user'"), <<breakStatement>>) >> ] >> ],
    [ fileName |-> [root |-> "cwd", rel |-> <<"Levels.tsx">>],
      body |-> <<
        [ node |-> "SwitchStatement", loc |-> At(12, 8), discriminant |-> Identifier("level"),
          cases |-> << switchCase(literal("0"), <<breakStatement>>),
                       switchCase(literal("1"), << >>),
                       switchCase(literal("''"), <<breakStatement>>),
                       defaultCase(<<breakStatement>>) >> ] >> ] }

BuiltSwitches == [file \in SwitchFiles |-> Transform(file, PluginConfig)]

\* the values the discriminants take
SwitchValues == {"'admin'", "'user'", "0", "1", "''", "'guest'"}

\* the cases' tests are evaluated in order and compared (===) with the
\* discriminant's value d; the first equal one is selected, else the default
\* case, else none (0)
DefaultOf(cases) ==
  LET defaults == { k \in 1..Len(cases) : ~cases[k].hasTest }
  IN IF defaults = {} THEN 0 ELSE CHOOSE k \in defaults : TRUE

RECURSIVE SelectCase(_, _, _, _, _, _)
RECURSIVE SelectAfterTest(_, _, _, _, _, _)
SelectCase(cases, j, d, st, env, now) ==
  IF j > Len(cases) THEN [st |-> st, selected |-> DefaultOf(cases)]
  ELSE IF ~cases[j].hasTest THEN SelectCase(cases, j + 1, d, st, env, now)
  ELSE SelectAfterTest(cases, j, d, Evaluate(cases[j].test, st, env, now), env, now)

\* t is the state after the j-th case's test was evaluated
SelectAfterTest(cases, j, d, t, env, now) ==
  IF t.raised THEN [st |-> t, selected |-> 0]
  ELSE IF t.value = d THEN [st |-> t, selected |-> j]
  ELSE SelectCase(cases, j + 1, d, t, env, now)

\* the statements of a body run in order, up to a break
RECURSIVE RunStatements(_, _, _, _)
RunStatements(stmts, st, env, now) ==
  IF stmts = << >> \/ st.raised THEN [st |-> st, broke |-> FALSE]
  ELSE IF Head(stmts).node = "BreakStatement" THEN [st |-> st, broke |-> TRUE]
  ELSE RunStatements(Tail(stmts), Evaluate(Head(stmts).expression, st, env, now), env, now)

\* execution starts at the body of case j and falls through the next bodies
\* until a break; ran are the cases whose body began to execute
RECURSIVE RunCases(_, _, _, _, _, _)
RECURSIVE RunAfterBody(_, _, _, _, _, _)
RunCases(cases, j, st, ran, env, now) ==
  IF j = 0 \/ j > Len(cases) \/ st.raised THEN [st |-> st, ran |-> ran]
  ELSE RunAfterBody(cases, j, RunStatements(cases[j].consequent, st, env, now), ran \cup {j}, env, now)

\* body is what the j-th case's statements left
RunAfterBody(cases, j, body, ran, env, now) ==
  IF body.broke THEN [st |-> body.st, ran |-> ran]
  ELSE RunCases(cases, j + 1, body.st, ran, env, now)

\* the switch statement node run as a whole
RunSwitchFrom(node, choice, d, now) == RunCases(node.cases, choice.selected, choice.st, {}, d, now)

RunSwitch(node, start, d, now) ==
  RunSwitchFrom(node, SelectCase(node.cases, 1, d, Evaluate(node.discriminant, start, d, now), d, now), d, now)

\* the id the plugin gives the j-th case of the switch that is the only
\* construct of its file
CaseId(file, j) ==
  LET node == file.body[1]
  IN createBranchId(file.fileName, node.loc.line, node.loc.column, "switch-case",
                    Cardinality({ k \in 1..(j - 1) : node.cases[k].hasTest }))

SwitchCaseIds ==
  { CaseId(file, j) : file \in SwitchFiles, j \in 1..3 }

\* one execution of a file's switch statement, as rewritten by the plugin,
\* with the discriminant holding d
SwitchRan(file, d, run) ==
  LET tested == { j \in run.ran : file.body[1].cases[j].hasTest }
  IN /\ history.events < MaxSwitchEvents
     /\ Becomes(run.st.self)
     /\ last' = [ op |-> "switch", file |-> file.fileName.rel, discriminant |-> d,
                  ran |-> run.ran,
                  ids |-> [j \in tested |-> CaseId(file, j)],
                  raised |-> run.st.raised ]
     /\ history' = [LoggedAll(history, run.st.log, clock) EXCEPT
                      !.ran = @ \cup { CaseId(file, j) : j \in tested }]
     /\ UNCHANGED <<clock, appCounter, pageVars>>

ExecSwitch(file, d) ==
  SwitchRan(file, d, RunSwitch(BuiltSwitches[file][1], StartOfEvaluation, d, clock))

SwitchNext ==
  \/ \E file \in SwitchFiles, d \in SwitchValues : ExecSwitch(file, d)
  \/ CallClearStats
  \/ Tick

SpecSwitch == Init /\ [][SwitchNext]_vars

\* -------------------------------------------- constructs without position
\* a file whose nodes another plugin generated: they carry no loc and no
\* source text; one construct of every type the plugin instruments
NoLocFile ==
  [ fileName |-> [root |-> "cwd", rel |-> <<"Generated.tsx">>],
    body |-> <<
      [ node |-> "IfStatement", conditionCode |-> "", test |-> Identifier("flag") ],
      [ node |-> "ConditionalExpression", conditionCode |-> "", test |-> Identifier("flag") ],
      [ node |-> "LogicalExpression", operator |-> "||", conditionCode |-> "",
        left |-> Identifier("flag") ],
      [ node |-> "JSXExpressionContainer", conditionCode |-> "",
        expression |-> [ node |-> "LogicalExpression", operator |-> "&&", conditionCode |-> "",
                         left |-> Identifier("flag") ] ],
      [ node |-> "JSXExpressionContainer", conditionCode |-> "",
        expression |-> [ node |-> "ConditionalExpression", conditionCode |-> "",
                         test |-> Identifier("flag") ] ],
      [ node |-> "SwitchStatement", discriminant |-> Identifier("flag"),
        cases |-> << switchCase(literal("true"), <<breakStatement>>),
                     switchCase(literal("false"), <<breakStatement>>) >> ] >> ]

BuiltNoLoc == Transform(NoLocFile, PluginConfig)

\* the i-th construct of the built file runs with flag = env
RunNoLoc(i, env) ==
  IF BuiltNoLoc[i].node = "SwitchStatement"
  THEN RunSwitch(BuiltNoLoc[i], StartOfEvaluation, env, clock).st
  ELSE Evaluate(TestOf(BuiltNoLoc[i]), StartOfEvaluation, env, clock)

NoLocRan(i, rewritten) ==
  /\ history.events < MaxNoLocEvents
  /\ Becomes(rewritten.self)
  /\ last' = [ op |-> "exec", construct |-> NoLocFile.body[i].node,
               recorded |-> Len(rewritten.log), raised |-> rewritten.raised ]
  /\ history' = LoggedAll(history, rewritten.log, clock)
  /\ UNCHANGED <<clock, appCounter, pageVars>>

ExecNoLoc(i, env) == NoLocRan(i, RunNoLoc(i, env))

NoLocNext ==
  \/ \E i \in 1..Len(NoLocFile.body) : ExecNoLoc(i, "true")
  \/ CallClearStats

NoLocInit == InitWith({ConfigOf(DefaultSampling)})

SpecNoLoc == NoLocInit /\ [][NoLocNext]_vars

\* -------------------------------------------------------- passes of a build
\* the recordBranchHit calls a rewritten construct holds where they are
\* evaluated (the arguments of a call are not searched), outermost first
RECURSIVE InsertedCalls(_)
RECURSIVE InsertedInAll(_)
InsertedInAll(nodes) ==
  IF nodes = << >> THEN << >>
  ELSE InsertedCalls(Head(nodes)) \o InsertedInAll(Tail(nodes))

RECURSIVE InsertedInCases(_)
InsertedInCases(cases) ==
  IF cases = << >> THEN << >>
  ELSE InsertedInAll(Head(cases).consequent) \o InsertedInCases(Tail(cases))

InsertedCalls(n) ==
  CASE n.node = "RecordBranchHit"        -> <<n>>
    [] n.node = "SequenceExpression"     -> InsertedInAll(n.expressions)
    [] n.node = "ExpressionStatement"    -> InsertedCalls(n.expression)
    [] n.node = "IfStatement"            -> InsertedCalls(n.test)
    [] n.node = "ConditionalExpression"  -> InsertedCalls(n.test)
    [] n.node = "LogicalExpression"      -> InsertedCalls(n.left)
    [] n.node = "JSXExpressionContainer" -> InsertedCalls(n.expression)
    [] n.node = "SwitchStatement"        -> InsertedInCases(n.cases)
    [] OTHER                             -> << >>

\* the files of the application a build passes over
PassFiles == SourceFiles \cup SwitchFiles \cup {NoLocFile}

\* one pass of the plugin over a file: Program.enter makes the file's
\* context, the visitors rewrite the file; the build log keeps the calls
\* the pass inserted
Passed(file, calls) ==
  /\ last' = [ op |-> "pass",
               passes |-> (IF last.op = "pass" THEN last.passes ELSE << >>)
                          \o << [file |-> file.fileName, calls |-> calls] >> ]
  /\ UNCHANGED <<collectorVars, clock, appCounter, pageVars, history>>

Pass(file) ==
  /\ last.op = "pass" => Len(last.passes) < MaxPasses
  /\ Passed(file, InsertedInAll(Transform(file, PluginConfig)))

PassNext == \E file \in PassFiles : Pass(file)

SpecPass == Init /\ [][PassNext]_vars

\* ------------------------------------------------------ collector start-up
\* initializeRuntimeCoverage's defaultConfig in a development build, with the
\* fields this model's configurations carry
defaultConfig == ConfigOf(DefaultSampling)

\* the configurations initializeRuntimeCoverage is given
InitializeInputs == { << >>, [enabled |-> FALSE], [sampling |-> ProductionSampling] }

\* a page before any script ran.  The collector's fields hold what the
\* constructor will set; nothing reads them while window.coverage is empty.
BootInit ==
  /\ Is(NewCollector(defaultConfig))
  /\ window = EmptyWindow
  /\ held = NoCopy
  /\ hook = NoHookState
  /\ emitted = [self |-> emittedConstructor(defaultConfig), path |-> "none"]
  /\ sessionId = generateSessionId(0, "k3x9q2m1z")
  /\ clock = 0
  /\ appCounter = 0
  /\ last = [op |-> "load"]
  /\ history = NoHistory

\* the init script of the page's head: it appends the collector script
\* element, marked async
RunInitScript ==
  /\ window.script = "none"
  /\ window' = [window EXCEPT !.script = "loading"]
  /\ last' = [op |-> "initScript"]
  /\ UNCHANGED <<collectorVars, clock, appCounter, held, sessionId, hook, emitted, history>>

\* the collector script arrives and runs: new RuntimeCoverageCollector(config)
CollectorScriptRuns ==
  /\ window.script = "loading"
  /\ Becomes(NewCollector(defaultConfig))
  /\ window' = Constructed([window EXCEPT !.script = "loaded"], defaultConfig)
  /\ last' = [op |-> "collectorScript"]
  /\ history' = NoHistory
  /\ UNCHANGED <<clock, appCounter, held, sessionId, hook, emitted>>

\* initializeRuntimeCoverage(config): null for a disabled configuration,
\* otherwise a new collector
initializeRuntimeCoverage(cfg) ==
  LET finalConfig == Spread(defaultConfig, cfg)
  IN /\ last.op # "initializeRuntimeCoverage"
     /\ IF ~finalConfig.enabled
        THEN /\ last' = [op |-> "initializeRuntimeCoverage", ret |-> "null"]
             /\ UNCHANGED <<collectorVars, window, history>>
        ELSE /\ Becomes(NewCollector(finalConfig))
             /\ window' = Constructed(window, finalConfig)
             /\ last' = [op |-> "initializeRuntimeCoverage", ret |-> "collector"]
             /\ history' = NoHistory
     /\ UNCHANGED <<clock, appCounter, held, sessionId, hook, emitted>>

BootNext ==
  \/ RunInitScript
  \/ CollectorScriptRuns
  \/ \E cfg \in InitializeInputs : initializeRuntimeCoverage(cfg)
  \/ \E file \in SourceFiles : \E i \in 1..Len(file.body), env \in JSValues :
       ExecConstruct(file, i, env)

SpecBoot == BootInit /\ [][BootNext]_vars

\* ------------------------------------------------------ the query surface
\* the operations the hook, the panel and the dev tools call
QuerySurface == {"getBranchStats", "getExecutionSummary", "clearStats", "exportData", "updateConfig"}

\* the counts a caller writes into a record it holds
CallerCounts == {7}

\* mutant: exporting flushes the table
exportDataFlushes(self) ==
  [ self |-> clearStats(self),
    ret  |-> [ branchStats      |-> self.branchStats,
               executionSummary |-> getExecutionSummary(self),
               config           |-> self.config,
               sessionId        |-> sessionId ] ]

\* exportData; branchStats is given as what the returned copy reads
exportData(self) ==
  [ self |-> self,
    ret  |-> [ branchStats      |-> ReadCopy(getBranchStats(self).ret, self.branchStats),
               executionSummary |-> getExecutionSummary(self),
               config           |-> self.config,
               sessionId        |-> sessionId ] ]

QueryInit == InitWith({ConfigOf(DefaultSampling)})

QueryRecord(site, conditionResult) == RecordStep(site, conditionResult, MaxQueryEvents)

CallGetBranchStats ==
  LET r == getBranchStats(Self)
  IN /\ Becomes(r.self)
     /\ held' = r.ret
     /\ last' = [op |-> "getBranchStats", ret |-> ReadCopy(r.ret, r.self.branchStats)]
     /\ UNCHANGED <<clock, appCounter, window, sessionId, hook, emitted, history>>

CallExportData ==
  LET r == exportData(Self)
  IN /\ Becomes(r.self)
     /\ last' = [op |-> "exportData", ret |-> r.ret]
     /\ UNCHANGED <<clock, appCounter, pageVars, history>>

\* the caller deletes a key of the object it holds
DeleteKey(b) ==
  /\ b \in held.keys
  /\ held' = [ keys   |-> held.keys \ {b},
               shared |-> held.shared \ {b},
               own    |-> [k \in (DOMAIN held.own) \ {b} |-> held.own[k]] ]
  /\ last' = [op |-> "mutateCopy", kind |-> "delete", branchId |-> b]
  /\ UNCHANGED <<collectorVars, clock, appCounter, window, sessionId, hook, emitted, history>>

\* the caller adds a key to the object it holds
AddKey(site) ==
  LET b == site.branchId
  IN /\ b \notin held.keys
     /\ held' = [ keys   |-> held.keys \cup {b},
                  shared |-> held.shared,
                  own    |-> Spread(held.own, [k \in {b} |-> ImportedHit(site, 0, 0, clock)]) ]
     /\ last' = [op |-> "mutateCopy", kind |-> "add", branchId |-> b]
     /\ UNCHANGED <<collectorVars, clock, appCounter, window, sessionId, hook, emitted, history>>

\* the caller assigns hitCount or missCount of a record it reaches through
\* the object it holds; a shared record is the table's record
SetCount(b, field, n) ==
  /\ b \in held.keys
  /\ IF b \in held.shared
     THEN /\ branchStats' = [branchStats EXCEPT ![b] =
                               IF field = "hitCount" THEN [@ EXCEPT !.hitCount = n]
                               ELSE [@ EXCEPT !.missCount = n]]
          /\ UNCHANGED held
     ELSE /\ held' = [held EXCEPT !.own[b] =
                        IF field = "hitCount" THEN [@ EXCEPT !.hitCount = n]
                        ELSE [@ EXCEPT !.missCount = n]]
          /\ UNCHANGED branchStats
  /\ last' = [op |-> "mutateCopy", kind |-> field, branchId |-> b]
  /\ UNCHANGED <<samplingConfig, config, sampleCounter, lastSampleTime,
                 clock, appCounter, window, sessionId, hook, emitted, history>>

MutateCopy ==
  \/ \E b \in held.keys : DeleteKey(b)
  \/ \E site \in CallSites : AddKey(site)
  \/ \E b \in held.keys, field \in {"hitCount", "missCount"}, n \in CallerCounts : SetCount(b, field, n)

\* window.__RUNTIME_COVERAGE__.method(...): a TypeError when the global
\* object has no such member
CallGlobal(method) ==
  IF method \in window.coverage
  THEN CASE method = "getBranchStats"      -> CallGetBranchStats
         [] method = "getExecutionSummary" -> CallGetExecutionSummary
         [] method = "clearStats"          -> CallClearStats
         [] method = "updateConfig"        -> CallUpdateConfig([sampling |-> [collectExecutionTime |-> FALSE]])
         [] method = "exportData"          -> CallExportData
  ELSE /\ last' = [op |-> "TypeError", method |-> method]
       /\ UNCHANGED <<collectorVars, clock, appCounter, pageVars, history>>

QueryNext ==
  \/ \E site \in CallSites, v \in {"true", "false"} : QueryRecord(site, v)
  \/ \E method \in QuerySurface : CallGlobal(method)
  \/ CallExportData
  \/ MutateCopy

SpecQuery == QueryInit /\ [][QueryNext]_vars

\* --------------------------------------------------------- file selection
\* Paths and patterns are held as the sequences of their characters.
RECURSIVE Str(_)
Str(chars) == IF chars = << >> THEN "" ELSE Head(chars) \o Str(Tail(chars))

\* String.prototype.includes
includes(s, sub) ==
  \E i \in 0..(Len(s) - Len(sub)) : SubSeq(s, i + 1, i + Len(sub)) = sub

\* String.prototype.replace with a string pattern: the first occurrence only
replace(s, find, with) ==
  LET at == { i \in 0..(Len(s) - Len(find)) : SubSeq(s, i + 1, i + Len(find)) = find }
  IN IF at = {} THEN s
     ELSE LET i == CHOOSE x \in at : \A y \in at : x <= y
          IN SubSeq(s, 1, i) \o with \o SubSeq(s, i + Len(find) + 1, Len(s))

\* excludePatterns.some(pattern => fileName.includes(
\*   pattern.replace('**/', '').replace('*', '')))
Excluded(fileName, excludePatterns) ==
  \E k \in DOMAIN excludePatterns :
    includes(fileName, replace(replace(excludePatterns[k], <<"*", "*", "/">>, << >>), <<"*">>, << >>))

EndsWith(s, suffix) ==
  Len(s) >= Len(suffix) /\ SubSeq(s, Len(s) - Len(suffix) + 1, Len(s)) = suffix

\* /\.(js|jsx|ts|tsx)$/.test(id)
IsScript(id) ==
  \E ext \in { <<".", "j", "s">>, <<".", "j", "s", "x">>, <<".", "t", "s">>, <<".", "t", "s", "x">> } :
    EndsWith(id, ext)

\* DEFAULT_CONFIG.excludePatterns: 'node_modules/**', '**/*.test.*', '**/*.spec.*'
DefaultExcludePatterns ==
  << <<"n", "o", "d", "e", "_", "m", "o", "d", "u", "l", "e", "s", "/", "*", "*">>,
     <<"*", "*", "/", "*", ".", "t", "e", "s", "t", ".", "*">>,
     <<"*", "*", "/", "*", ".", "s", "p", "e", "c", ".", "*">> >>

\* a project's own pattern: '**/vendor/*'
VendorExcludePatterns == << <<"*", "*", "/", "v", "e", "n", "d", "o", "r", "/", "*">> >>

SelectConfigs ==
  { [enabled |-> TRUE, sampling |-> DefaultSampling, excludePatterns |-> DefaultExcludePatterns],
    [enabled |-> TRUE, sampling |-> DefaultSampling, excludePatterns |-> VendorExcludePatterns],
    [enabled |-> FALSE, sampling |-> DefaultSampling, excludePatterns |-> DefaultExcludePatterns] }

SelectBody ==
  << [ node |-> "IfStatement", loc |-> At(45, 8), conditionCode |-> "(user.isActive)",
       test |-> Identifier("user.isActive") ],
     [ node |-> "LogicalExpression", operator |-> "&&", loc |-> At(50, 8),
       conditionCode |-> "user.isActive && user.name", left |-> Identifier("user.isActive") ] >>

\* node_modules/lib/index.js, src/a.test.ts, src/App.tsx, src/vendor/x.js,
\* src/style.css
SelectFiles ==
  { [ path |-> p, body |-> SelectBody ] :
      p \in { <<"n", "o", "d", "e", "_", "m", "o", "d", "u", "l", "e", "s", "/", "l", "i", "b", "/", "i", "n", "d", "e", "x", ".", "j", "s">>,
              <<"s", "r", "c", "/", "a", ".", "t", "e", "s", "t", ".", "t", "s">>,
              <<"s", "r", "c", "/", "A", "p", "p", ".", "t", "s", "x">>,
              <<"s", "r", "c", "/", "v", "e", "n", "d", "o", "r", "/", "x", ".", "j", "s">>,
              <<"s", "r", "c", "/", "s", "t", "y", "l", "e", ".", "c", "s", "s">> } }

FileNameOf(path) == [root |-> "cwd", rel |-> <<Str(path)>>]

\* the Babel plugin on one file: without config.enabled the visitor is
\* empty; when Program.enter returns early no context exists and every
\* visitor returns at once
runtimeCoverageBabelPlugin(file, pluginConfig) ==
  IF ~pluginConfig.enabled THEN file.body
  ELSE IF Excluded(file.path, pluginConfig.excludePatterns) THEN file.body
  ELSE Transform([fileName |-> FileNameOf(file.path), body |-> file.body], pluginConfig)

\* the Vite plugin's transform(code, id): null leaves the module as it is
transform(file, pluginConfig) ==
  IF ~pluginConfig.enabled THEN [result |-> "null", code |-> file.body]
  ELSE IF ~IsScript(file.path) THEN [result |-> "null", code |-> file.body]
  ELSE IF Excluded(file.path, pluginConfig.excludePatterns) THEN [result |-> "null", code |-> file.body]
  ELSE [result |-> "code", code |-> runtimeCoverageBabelPlugin(file, pluginConfig)]

Built(tool, file, pluginConfig, output) ==
  /\ last' = [ op |-> "build", tool |-> tool, path |-> file.path,
               excludePatterns |-> pluginConfig.excludePatterns,
               enabled |-> pluginConfig.enabled,
               input |-> file.body, output |-> output ]
  /\ UNCHANGED <<collectorVars, clock, appCounter, pageVars, history>>

BabelBuild(file, pluginConfig) ==
  /\ IsScript(file.path)
  /\ Built("babel", file, pluginConfig, runtimeCoverageBabelPlugin(file, pluginConfig))

ViteBuild(file, pluginConfig) ==
  Built("vite", file, pluginConfig, transform(file, pluginConfig).code)

\* the module just built runs its i-th construct
Ran(i, rewritten) ==
  /\ history.events < MaxSelectEvents
  /\ Becomes(rewritten.self)
  /\ last' = [ op |-> "run", path |-> last.path, construct |-> i,
               recorded |-> Len(rewritten.log), value |-> rewritten.value ]
  /\ history' = LoggedAll(history, rewritten.log, clock)
  /\ UNCHANGED <<clock, appCounter, pageVars>>

RunBuilt(i, env) ==
  /\ last.op = "build"
  /\ i \in DOMAIN last.output
  /\ Ran(i, Evaluate(TestOf(last.output[i]), StartOfEvaluation, env, clock))

SelectNext ==
  \/ \E file \in SelectFiles, pluginConfig \in SelectConfigs : BabelBuild(file, pluginConfig)
  \/ \E file \in SelectFiles, pluginConfig \in SelectConfigs : ViteBuild(file, pluginConfig)
  \/ \E i \in 1..Len(SelectBody), env \in {"true", "false"} : RunBuilt(i, env)
  \/ CallClearStats

SpecSelect == Init /\ [][SelectNext]_vars

\* ------------------------------------------- every operation of the class
CounterInit == InitWith({ConfigOf(ProductionSampling)})

CounterRecord(site, conditionResult) == RecordStep(site, conditionResult, MaxCounterEvents)

CounterNext ==
  \/ \E site \in { c \in CallSites : c.type = "if" } : CounterRecord(site, "true")
  \/ CallClearStats
  \/ \E newConfig \in UpdateInputs : CallUpdateConfig(newConfig)
  \/ \E data \in ImportInputs : CallImportData(data)
  \/ CallGetBranchStats
  \/ CallGetExecutionSummary
  \/ CallExportData
  \/ Tick

SpecCounter == CounterInit /\ [][CounterNext]_vars

\* ------------------------------------------------ summaries of many files
SummaryFiles ==
  << "a.ts", "b.ts", "c.ts", "d.ts", "e.ts", "f.ts", "g.ts", "h.ts", "i.ts", "j.ts", "k.ts", "l.ts" >>

\* the n-th if of a file
SummarySite(file, n) ==
  [ branchId |-> <<file, "4", "0", "if#" \o ToString(n)>>, type |-> "if",
    conditionCode |-> "(flag)", collectExecutionTime |-> FALSE ]

\* a table as another session exported it: for every file of `files` the
\* records of ordinals from..from + (k % spread), k the file's number, with
\* the given counts
ExportedTable(files, from, spread, hitCount, missCount) ==
  LET sites == { SummarySite(SummaryFiles[k], n) : k \in files, n \in from..(from + 2) }
      kept  == { site \in sites :
                   \E k \in files : \E n \in from..(from + (k % spread)) :
                     site = SummarySite(SummaryFiles[k], n) }
  IN [ b \in { site.branchId : site \in kept } |->
         ImportedHit(CHOOSE site \in kept : site.branchId = b, hitCount, missCount, 0) ]

\* never-hit records in twelve files, hot records in eleven, cold and
\* normal ones in two
SummaryImports ==
  { [branchStats |-> ExportedTable(1..12, 0, 3, 0, 0)],
    [branchStats |-> ExportedTable(1..11, 3, 2, 150, 20)],
    [branchStats |-> ExportedTable(1..2, 6, 2, 3, 1)],
    [branchStats |-> ExportedTable(2..3, 6, 3, 7, 0)] }

SummaryInit == InitWith({ConfigOf(DefaultSampling)})

SummaryRecord(site, conditionResult) == RecordStep(site, conditionResult, MaxSummaryEvents)

SummaryNext ==
  \/ \E n \in 0..1, v \in {"true", "false"} : SummaryRecord(SummarySite(SummaryFiles[1], n), v)
  \/ \E data \in SummaryImports : CallImportData(data)
  \/ CallGetExecutionSummary
  \/ CallClearStats

SpecSummary == SummaryInit /\ [][SummaryNext]_vars

\* ------------------------------------------- branch ids there and back
\* src/App.tsx under the working directory, C:/proj/App.tsx outside it, and
\* the module id virtual:entry.ts
RoundTripFiles ==
  { [root |-> "cwd", rel |-> <<"src/App.tsx">>],
    [root |-> "", rel |-> <<"C", "/proj/App.tsx">>],
    [root |-> "", rel |-> <<"virtual", "entry.ts">>] }

RoundTripLines == {0, 4, 45}

RoundTripColumns == {0, 8}

RoundTripTypes == {"if", "jsx-conditional"}

\* a construct instrumented with the id createBranchId built is executed
RoundTripRecord(fileName, line, column, type, counter) ==
  RecordStep([ branchId |-> createBranchId(fileName, line, column, type, counter),
               type |-> type, conditionCode |-> "(flag)", collectExecutionTime |-> FALSE ],
             "true", MaxRoundTripEvents)

RoundTripNext ==
  \/ \E fileName \in RoundTripFiles, line \in RoundTripLines, column \in RoundTripColumns,
        type \in RoundTripTypes, counter \in 0..1 :
          RoundTripRecord(fileName, line, column, type, counter)
  \/ CallClearStats

SpecRoundTrip == Init /\ [][RoundTripNext]_vars

\* ---------------------------------------------------- analytics reports
AnalyticsConfig ==
  [ enabled |-> TRUE, sampling |-> DefaultSampling,
    sendToAnalytics |-> TRUE, analyticsEndpoint |-> "/api/coverage" ]

\* what the network call of one report does: its promise resolves, its
\* promise rejects, or evaluating fetch(..., JSON.stringify(event)) throws
FetchOutcomes == {"resolved", "rejected", "throws"}

\* sendToAnalytics: returns early without an endpoint; a rejected promise
\* reaches the .catch and is warned about; a throw leaves the method
sendToAnalytics(self, outcome) ==
  IF "analyticsEndpoint" \notin DOMAIN self.config \/ self.config.analyticsEndpoint = ""
  THEN "noEndpoint"
  ELSE CASE outcome = "throws"   -> "thrown"
         [] outcome = "rejected" -> "warned"
         [] OTHER                -> "sent"

\* the body both callbacks of startAnalyticsReporting share: nothing is sent
\* for an empty table
ReportPath(self, outcome) ==
  IF DOMAIN self.branchStats = {} THEN "skipped" ELSE sendToAnalytics(self, outcome)

\* a callback of startAnalyticsReporting runs; nothing around it catches
Report(callback, outcome) ==
  LET path == ReportPath(Self, outcome)
  IN /\ window.reporting
     /\ window.warnings + window.uncaught < MaxReports
     /\ window' = [window EXCEPT
                     !.warnings = IF path = "warned" THEN @ + 1 ELSE @,
                     !.uncaught = IF path = "thrown" THEN @ + 1 ELSE @]
     /\ last' = [op |-> "report", hook |-> callback, outcome |-> outcome, path |-> path]
     /\ UNCHANGED <<collectorVars, clock, appCounter, held, sessionId, hook, emitted, history>>

\* the setInterval callback, every 30000 ms
TimerFires(outcome) == Report("interval", outcome)

\* the beforeunload listener
BeforeUnload(outcome) == Report("beforeunload", outcome)

AnalyticsInit == InitWith({AnalyticsConfig})

AnalyticsRecord(site, conditionResult) == RecordStep(site, conditionResult, MaxReportEvents)

AnalyticsNext ==
  \/ \E site \in CallSites, v \in {"true", "false"} : AnalyticsRecord(site, v)
  \/ \E outcome \in FetchOutcomes : TimerFires(outcome)
  \/ \E outcome \in FetchOutcomes : BeforeUnload(outcome)
  \/ CallUpdateConfig([analyticsEndpoint |-> ""])
  \/ CallClearStats

SpecAnalytics == AnalyticsInit /\ [][AnalyticsNext]_vars

\* ------------------------------------------------- hot and cold records
\* The records getExecutionSummary counts as hotBranches and coldBranches.
SummaryHot(stats) == { b \in DOMAIN stats : stats[b].hitCount > 100 }

SummaryCold(stats) == { b \in DOMAIN stats : stats[b].hitCount > 0 /\ stats[b].hitCount < 5 }

\* hitCount / total > 0.8 and hitCount / total < 0.2: for counts of this size
\* the quotient differs from the literal by far more than a rounding error
\* unless it is the literal's own value, so the comparison of doubles is the
\* comparison of the fractions.
RateAbove80(hitCount, total) == hitCount * 5 > total * 4

RateBelow20(hitCount, total) == hitCount * 5 < total

\* dev tools: findHotPaths(threshold = 100), findColdPaths(maxExecutions = 5)
findHotPaths(stats, threshold) ==
  { b \in DOMAIN stats :
      LET total == stats[b].hitCount + stats[b].missCount
      IN total > threshold /\ RateAbove80(stats[b].hitCount, total) }

findColdPaths(stats, maxExecutions) ==
  { b \in DOMAIN stats :
      LET total == stats[b].hitCount + stats[b].missCount
      IN total > 0 /\ total <= maxExecutions }

\* execution tree statistics: hotBranches, coldBranches
TreeHot(stats) ==
  { b \in DOMAIN stats :
      LET total == stats[b].hitCount + stats[b].missCount
      IN total > 50 /\ RateAbove80(stats[b].hitCount, total) }

TreeCold(stats) ==
  { b \in DOMAIN stats :
      LET total == stats[b].hitCount + stats[b].missCount
      IN total > 0 /\ RateBelow20(stats[b].hitCount, total) }

\* ----------------------------------------- the React hook and the dev tools
\* Every operation is given the page's window and the collector and yields
\* the hook's state and the collector it leaves, what it returns, and
\* whether it raised a TypeError (a call of a method the global lacks).
\* A list of records is given as the set of their ids.

\* refreshData
hookRefreshData(h, w, self) ==
  IF w.coverage # {}
  THEN IF ~({"getBranchStats", "getExecutionSummary"} \subseteq w.coverage)
       THEN [hook |-> h, self |-> self, raised |-> TRUE]
       ELSE [ hook |-> [ branchStats  |-> ReadCopy(getBranchStats(self).ret, self.branchStats),
                         summary      |-> <<getExecutionSummary(self)>>,
                         isCollecting |-> DOMAIN self.branchStats # {} ],
              self |-> self, raised |-> FALSE ]
  ELSE [hook |-> [h EXCEPT !.isCollecting = FALSE], self |-> self, raised |-> FALSE]

\* the hook's clearStats
hookClearStats(h, w, self) ==
  IF w.coverage # {}
  THEN IF "clearStats" \notin w.coverage
       THEN [hook |-> h, self |-> self, raised |-> TRUE]
       ELSE [hook |-> NoHookState, self |-> clearStats(self), raised |-> FALSE]
  ELSE [hook |-> h, self |-> self, raised |-> FALSE]

\* the hook's exportData: the download touches neither the hook's state nor
\* the collector
hookExportData(h, w, self) ==
  IF w.coverage # {}
  THEN IF "exportData" \notin w.coverage
       THEN [hook |-> h, self |-> self, raised |-> TRUE]
       ELSE [hook |-> h, self |-> exportData(self).self, raised |-> FALSE]
  ELSE [hook |-> h, self |-> self, raised |-> FALSE]

\* dev tools: findDeadCode
findDeadCode(stats) ==
  { b \in DOMAIN stats : stats[b].hitCount = 0 /\ stats[b].missCount = 0 }

\* the files and recommendations of generateReport: dead branches, and
\* branches of more than 100 evaluations, over 0.9 of them hits
ReportOf(stats, summary) ==
  LET dead == findDeadCode(stats)
      hot  == { b \in DOMAIN stats :
                  LET total == stats[b].hitCount + stats[b].missCount
                  IN total > 100 /\ stats[b].hitCount * 10 > total * 9 }
  IN [ summary         |-> summary,
       recommendations |-> dead \cup hot,
       deadCodeFiles   |-> { stats[b].file : b \in dead },
       hotPathFiles    |-> { stats[b].file : b \in hot } ]

DevHelpers == {"findDeadCode", "findHotPaths", "findColdPaths", "generateReport"}

\* mutant: the helpers call the global without looking for it
DevToolUnguarded(helper, w, self) ==
  IF "getBranchStats" \notin w.coverage
     \/ (helper = "generateReport" /\ "getExecutionSummary" \notin w.coverage)
  THEN [ret |-> {}, raised |-> TRUE]
  ELSE [ret |-> {}, raised |-> FALSE]

\* window.__RUNTIME_COVERAGE_DEV_TOOLS__[helper](): the lists as sets of
\* ids, the report as a list that is empty for null
DevTool(helper, w, self) ==
  IF w.coverage = {}
  THEN [ret |-> IF helper = "generateReport" THEN << >> ELSE {}, raised |-> FALSE]
  ELSE IF "getBranchStats" \notin w.coverage
          \/ (helper = "generateReport" /\ "getExecutionSummary" \notin w.coverage)
  THEN [ret |-> {}, raised |-> TRUE]
  ELSE LET stats == ReadCopy(getBranchStats(self).ret, self.branchStats)
       IN [ ret |-> CASE helper = "findDeadCode"  -> findDeadCode(stats)
                      [] helper = "findHotPaths"  -> findHotPaths(stats, 100)
                      [] helper = "findColdPaths" -> findColdPaths(stats, 5)
                      [] OTHER -> <<ReportOf(stats, getExecutionSummary(self))>>,
            raised |-> FALSE ]

\* a component that uses the hook calls one of its three operations
HookCalled(op, r) ==
  /\ Becomes(r.self)
  /\ hook' = r.hook
  /\ held' = Detached(held, branchStats, DOMAIN branchStats \ DOMAIN r.self.branchStats)
  /\ history' = IF r.self.branchStats = branchStats THEN history
                ELSE [NoHistory EXCEPT !.prevAccept.ever = history.prevAccept.ever]
  /\ last' = [op |-> op, installed |-> window.coverage # {}, raised |-> r.raised]
  /\ UNCHANGED <<clock, appCounter, window, sessionId, emitted>>

HookRefresh == HookCalled("hook.refreshData", hookRefreshData(hook, window, Self))

HookClear == HookCalled("hook.clearStats", hookClearStats(hook, window, Self))

HookExport == HookCalled("hook.exportData", hookExportData(hook, window, Self))

\* a dev tools helper is called from the console
DevToolCalled(helper, r) ==
  /\ last' = [op |-> helper, installed |-> window.coverage # {}, raised |-> r.raised, ret |-> r.ret]
  /\ UNCHANGED <<collectorVars, clock, appCounter, pageVars, history>>

CallDevTool(helper) == DevToolCalled(helper, DevTool(helper, window, Self))

\* instrumented code calls window.__RUNTIME_COVERAGE__.recordBranchHit: a
\* TypeError while the global is undefined
HookRecord(site, conditionResult) ==
  IF "recordBranchHit" \in window.coverage
  THEN RecordStep(site, conditionResult, MaxHookEvents)
  ELSE /\ last' = [op |-> "TypeError"]
       /\ UNCHANGED <<collectorVars, clock, appCounter, pageVars, history>>

HookNext ==
  \/ RunInitScript
  \/ CollectorScriptRuns
  \/ \E cfg \in InitializeInputs : initializeRuntimeCoverage(cfg)
  \/ \E site \in CallSites, conditionResult \in {"true", "false"} :
       HookRecord(site, conditionResult)
  \/ HookRefresh
  \/ HookClear
  \/ HookExport
  \/ \E helper \in DevHelpers : CallDevTool(helper)

SpecHook == BootInit /\ [][HookNext]_vars

\* ---------------------------------------- the two collectors side by side
\* the same call is made on the core collector and on the emitted one, at
\* the same time
BothRecordBranchHit(site, conditionResult) ==
  LET b == site.branchId
      r == recordBranchHit(Self, b, site.type, site.conditionCode, conditionResult, site.collectExecutionTime, clock, 0)
      e == emittedRecordBranchHit(emitted.self, b, site.type, site.conditionCode, conditionResult, site.collectExecutionTime, clock, 0)
  IN /\ history.events < MaxEmittedEvents
     /\ Becomes(r.self)
     /\ emitted' = [self |-> e.self, path |-> e.path]
     /\ last' = [ op |-> "recordBranchHit", branchId |-> b,
                  conditionResult |-> conditionResult, now |-> clock,
                  ret |-> r.ret, path |-> r.path ]
     /\ history' = Logged(history, samplingConfig.enabled, b, conditionResult, r.path, clock)
     /\ UNCHANGED <<clock, appCounter, window, held, sessionId, hook>>

BothClearStats ==
  /\ Becomes(clearStats(Self))
  /\ emitted' = [self |-> emittedClearStats(emitted.self), path |-> "none"]
  /\ last' = [op |-> "clearStats"]
  /\ history' = [NoHistory EXCEPT !.prevAccept.ever = history.prevAccept.ever]
  /\ held' = Detached(held, branchStats, DOMAIN branchStats)
  /\ UNCHANGED <<clock, appCounter, window, sessionId, hook>>

BothUpdateConfig(newConfig) ==
  LET after == updateConfig(Self, newConfig)
  IN /\ Becomes(after)
     /\ emitted' = [self |-> emittedUpdateConfig(emitted.self, newConfig), path |-> "none"]
     /\ last' = [op |-> "updateConfig"]
     /\ history' = [history EXCEPT
          !.prevAccept = IF after.samplingConfig # samplingConfig THEN NoAccept ELSE @,
          !.gateTrace = IF after.samplingConfig.sampleRate # samplingConfig.sampleRate
                        THEN << >> ELSE @]
     /\ UNCHANGED <<clock, appCounter, window, held, sessionId, hook>>

EmittedTick == TickTo(MaxEmittedTime)

EmittedNext ==
  \/ \E site \in CallSites, conditionResult \in {"true", "false"} :
       BothRecordBranchHit(site, conditionResult)
  \/ BothClearStats
  \/ \E newConfig \in UpdateInputs : BothUpdateConfig(newConfig)
  \/ EmittedTick

SpecEmitted == Init /\ [][EmittedNext]_vars

\* ================================================================ claims

Counts(b) == IF b \in DOMAIN branchStats
             THEN [hit |-> branchStats[b].hitCount, miss |-> branchStats[b].missCount]
             ELSE [hit |-> 0, miss |-> 0]

Called(b) == CallsOf(history, b).truthy + CallsOf(history, b).falsy

\* C2: while sampling is disabled (and nothing was cleared or imported since),
\* after N recordBranchHit calls for an id its record has
\* hitCount + missCount = N; an id never called has no record.
C2_NoEventLoss ==
  history.lossless =>
    \A b \in BranchIds :
      IF Called(b) = 0 THEN b \notin DOMAIN branchStats
      ELSE b \in DOMAIN branchStats /\ Counts(b).hit + Counts(b).miss = Called(b)

\* three calls for one id, of both truthiness, all counted
C2_Witness ==
  /\ history.lossless
  /\ \E b \in BranchIds : /\ Called(b) = 3
                          /\ CallsOf(history, b).falsy > 0
                          /\ CallsOf(history, b).truthy > 0
                          /\ Counts(b).hit + Counts(b).miss = 3

Rejected(l) == l.op = "recordBranchHit" /\ l.path \in {"sampledOut", "rateLimited"}

\* C3: a recordBranchHit call that the sampling gate or the rate limiter
\* rejects leaves the whole table as it was: no record is created and no
\* field of any record changes.
C3_RejectedLeavesTable == [][Rejected(last') => branchStats' = branchStats]_vars

\* a first event for an id is sampled out while the table holds another record
C3_Witness ==
  /\ Rejected(last)
  /\ last.path = "sampledOut"
  /\ DOMAIN branchStats # {}
  /\ last.branchId \notin DOMAIN branchStats

\* C4: recordBranchHit returns the result it was given, on every path.
C4_ReturnsResult == last.op = "recordBranchHit" => last.ret = last.conditionResult

\* a rate-limited call given the falsy non-boolean 0 returns 0
C4_Witness ==
  /\ last.op = "recordBranchHit"
  /\ last.path = "rateLimited"
  /\ last.conditionResult = "0"
  /\ last.ret = "0"

NeverEvaluated(stats) == { b \in DOMAIN stats : stats[b].hitCount = 0 /\ stats[b].missCount = 0 }

\* C5: getExecutionSummary counts as dead exactly the records with
\* hitCount = 0 and missCount = 0, in summary.deadBranches and in every
\* file's dead count.
C5_DeadIsNeverEvaluated ==
  last.op = "getExecutionSummary" =>
    /\ last.ret.summary.deadBranches = Cardinality(NeverEvaluated(branchStats))
    /\ \A f \in DOMAIN last.ret.fileStats :
         last.ret.fileStats[f].dead =
           Cardinality({ b \in NeverEvaluated(branchStats) : branchStats[b].file = f })

\* the step the accepted event last' made on the table
CountedOnce(l) ==
  LET b   == l.branchId
      old == Counts(b)
  IN /\ DOMAIN branchStats' = DOMAIN branchStats \cup {b}
     /\ branchStats'[b].hitCount  = old.hit  + (IF Truthy(l.conditionResult) THEN 1 ELSE 0)
     /\ branchStats'[b].missCount = old.miss + (IF Truthy(l.conditionResult) THEN 0 ELSE 1)
     /\ \A o \in DOMAIN branchStats \ {b} : branchStats'[o] = branchStats[o]

\* C6: an accepted event increments exactly one counter of its record by
\* one, hitCount for a truthy result and missCount for a falsy one, and
\* changes no other record; with sampling disabled an id called with t truthy
\* and f falsy results has hitCount = t and missCount = f.
C6_OutcomeCounted ==
  /\ [][(last'.op = "recordBranchHit" /\ last'.path = "accepted") => CountedOnce(last')]_vars
  /\ [](history.lossless =>
          \A b \in DOMAIN branchStats :
            /\ Counts(b).hit  = CallsOf(history, b).truthy
            /\ Counts(b).miss = CallsOf(history, b).falsy)

\* Dashboard.tsx:45:8:if#0 called with true, true, false
C6_Witness ==
  LET b == <<"Dashboard.tsx", "45", "8", "if#0">>
  IN /\ history.lossless
     /\ CallsOf(history, b) = [truthy |-> 2, falsy |-> 1]
     /\ Counts(b) = [hit |-> 2, miss |-> 1]

\* what one more call does to a collector: the path taken, the result
\* returned, and the collector it leaves
NextCallOn(self, site, v) ==
  recordBranchHit(self, site.branchId, site.type, site.conditionCode, v, site.collectExecutionTime, clock, 0)

\* the part of a collector that clearStats is about
CollectedState(self) ==
  [branchStats |-> self.branchStats, sampleCounter |-> self.sampleCounter, lastSampleTime |-> self.lastSampleTime, samplingConfig |-> self.samplingConfig]

\* C9: right after clearStats the table is empty, the summary counts are
\* zero, and the sampling gate and the rate limiter are in the state of a
\* newly constructed collector with the same sampling settings: any next
\* call is treated alike by both.
C9_ClearIsFresh ==
  last.op = "clearStats" =>
    LET fresh   == NewCollector(ConfigOf(samplingConfig))
        summary == getExecutionSummary(Self).summary
    IN /\ branchStats = << >>
       /\ summary.totalBranches = 0 /\ summary.hitBranches = 0
       /\ summary.deadBranches = 0 /\ summary.hotBranches = 0 /\ summary.coldBranches = 0
       /\ CollectedState(Self) = CollectedState(fresh)
       /\ \A site \in CallSites, v \in JSValues :
            LET mine   == NextCallOn(Self, site, v)
                theirs == NextCallOn(fresh, site, v)
            IN /\ mine.path = theirs.path
               /\ mine.ret = theirs.ret
               /\ CollectedState(mine.self) = CollectedState(theirs.self)

\* clearStats after a sampled event had been accepted at a time past 0
C9_Witness ==
  /\ last.op = "clearStats"
  /\ samplingConfig.enabled
  /\ history.prevAccept.ever > 0
  /\ clock > 0

\* C10 as stated: a record exists for an id iff an event for it was accepted
\* since the last clearStats, and every record has hitCount + missCount >= 1.
C10_RecordIffAccepted ==
  \A b \in BranchIds :
    /\ b \in DOMAIN branchStats <=> b \in history.accepted
    /\ b \in DOMAIN branchStats => Counts(b).hit + Counts(b).miss >= 1

\* C10, amended: a record exists for an id iff, since the last clearStats, an
\* event for it was accepted or importData brought a record for it; every
\* record whose id was not imported since then has hitCount + missCount >= 1.
C10_RecordIffAcceptedOrImported ==
  \A b \in BranchIds :
    /\ b \in DOMAIN branchStats <=> b \in history.accepted \cup history.imported
    /\ (b \in DOMAIN branchStats /\ b \notin history.imported) => Counts(b).hit + Counts(b).miss >= 1

\* one record came by import, another by an accepted event
C10_Witness ==
  /\ history.imported # {}
  /\ history.accepted \ history.imported # {}
  /\ DOMAIN branchStats = history.accepted \cup history.imported

\* a recordBranchHit call that passed the probabilistic gate
PassedGate(l) == l.op = "recordBranchHit" /\ l.path # "sampledOut"

\* d ms are at least 1000 / maxSamplesPerSecond ms
AtLeastMinInterval(d) == d * samplingConfig.maxSamplesPerSecond >= 1000

\* the rate limiter's decision and its update of lastSampleTime
LimiterDecides(l) ==
  /\ l.path = "accepted" <=> AtLeastMinInterval(l.now - lastSampleTime)
  /\ lastSampleTime' = IF l.path = "accepted" THEN l.now ELSE lastSampleTime

\* C7 as stated: with sampling enabled and a fixed cap N, an event that passes
\* the gate is recorded iff at least 1000/N ms have passed since
\* lastSampleTime, lastSampleTime becomes its time only on acceptance, and any
\* two recorded events are at least 1000/N ms apart.
C7_AnyTwoRecordedApart ==
  [][PassedGate(last') =>
       /\ LimiterDecides(last')
       /\ (last'.path = "accepted" /\ history.prevAccept.ever >= 0) =>
            AtLeastMinInterval(last'.now - history.prevAccept.ever)]_vars

\* C7, amended: the same decision and update; any two events recorded with no
\* clearStats between them are at least 1000/N ms apart.
C7_RecordedApartBetweenClears ==
  [][PassedGate(last') =>
       /\ LimiterDecides(last')
       /\ (last'.path = "accepted" /\ history.prevAccept.sinceClear >= 0) =>
            AtLeastMinInterval(last'.now - history.prevAccept.sinceClear)]_vars

\* cap 500: a second event is recorded at 4 ms, 2 ms after the first
C7_Witness ==
  /\ last.op = "recordBranchHit" /\ last.path = "accepted"
  /\ samplingConfig.maxSamplesPerSecond = 500
  /\ last.now = 4
  /\ lastSampleTime = 4
  /\ branchStats[last.branchId].hitCount = 2

\* a sample rate as a fraction in lowest terms
RateFraction(lit) ==
  CASE lit = "0"    -> [p |-> 0, q |-> 1]
    [] lit = "0.25" -> [p |-> 1, q |-> 4]
    [] lit = "0.3"  -> [p |-> 3, q |-> 10]
    [] lit = "0.5"  -> [p |-> 1, q |-> 2]
    [] lit = "0.75" -> [p |-> 3, q |-> 4]
    [] lit = "1"    -> [p |-> 1, q |-> 1]

\* the rates a double holds exactly
Dyadic(lit) == RateFraction(lit).q \in {1, 2, 4}

\* the gate's decisions so far are those of the counter values 1, 2, ...
\* at the configured rate
GateIsFunctionOfCounter ==
  /\ sampleCounter = Len(history.gateTrace)
  /\ \A c \in 1..Len(history.gateTrace) :
       history.gateTrace[c] = GateAcceptsDouble(c, samplingConfig.sampleRate)

\* exactly p of the last q gate evaluations were accepted
LastWindowHasP(lit) ==
  LET f == RateFraction(lit)
      n == Len(history.gateTrace)
  IN n >= f.q => Cardinality({ c \in (n - f.q + 1)..n : history.gateTrace[c] }) = f.p

\* C8 as stated: the gate's decision is a function of the counter and the
\* rate only, and for a rate p/q in lowest terms exactly p of any q
\* consecutive gate evaluations are accepted.
C8_ExactlyPofQ ==
  /\ GateIsFunctionOfCounter
  /\ LastWindowHasP(samplingConfig.sampleRate)

\* C8, amended: the gate's decision is (c * r) % 1 < r computed in doubles, a
\* function of the counter and the rate only; for a rate that a double holds
\* exactly (0, 0.25, 0.5, 0.75, 1) it agrees with the exact
\* (c * p) mod q < p, and exactly p of any q consecutive evaluations are
\* accepted.
C8_ExactlyPofQForDyadicRates ==
  /\ GateIsFunctionOfCounter
  /\ Dyadic(samplingConfig.sampleRate) =>
       LET f == RateFraction(samplingConfig.sampleRate)
       IN /\ LastWindowHasP(samplingConfig.sampleRate)
          /\ \A c \in 1..Len(history.gateTrace) :
               history.gateTrace[c] <=> ((c * f.p) % f.q < f.p)

\* rate 0.75: twelve evaluations, nine accepted
C8_Witness ==
  /\ samplingConfig.sampleRate = "0.75"
  /\ Len(history.gateTrace) = 12
  /\ Cardinality({ c \in 1..12 : history.gateTrace[c] }) = 9
  /\ ~history.gateTrace[1]

\* C1: one execution of a rewritten if, ternary, logical, jsx-conditional
\* or jsx-ternary construct evaluates the original tested expression exactly
\* once and yields its value, so a side effect of the expression happens
\* once, as in the original, sampled or not.
C1_TestEvaluatedOnce ==
  last.op = "exec" =>
    /\ last.evaluations = 1
    /\ last.value = last.original.value
    /\ appCounter = last.original.appCounter

\* C11: evaluating an instrumented branch never raises into the host
\* application, whatever the order of application code and collector
\* start-up (collector script not yet run, or no collector constructed
\* because it is disabled), and a branch whose test has no side effect
\* yields its original value.
C11_BranchNeverRaises ==
  last.op = "exec" =>
    /\ ~last.raised
    /\ last.original.appCounter = appCounter => last.value = last.original.value

\* C12: a record of a switch case exists only if that case's body began to
\* execute (since the last clear): when the discriminant selects a later
\* case, the earlier, unexecuted case has no record, not even one with zero
\* counts.
C12_CaseRecordOnlyIfBodyRan ==
  /\ \A b \in SwitchCaseIds : b \in DOMAIN branchStats => b \in history.ran
  /\ last.op = "switch" =>
       \A b \in DOMAIN branchStats \cap SwitchCaseIds : branchStats[b].hitCount + branchStats[b].missCount >= 1

\* role = 'user' selected the second case of Roles.tsx: its record exists and
\* the 'admin' case has none
C12_Witness ==
  /\ last.op = "switch" /\ last.discriminant = "'user'" /\ last.ran = {2}
  /\ last.ids[2] \in DOMAIN branchStats
  /\ <<"Roles.tsx", "9", "4", "switch-case#0">> \notin DOMAIN branchStats

\* C13: with sampling disabled, each execution of an instrumented case body
\* adds one to that case's hitCount and nothing to its missCount, whatever
\* the case's label (falsy labels 0, '' and false included).
C13_CaseBodyIsAHit ==
  [][(last'.op = "switch" /\ ~samplingConfig.enabled) =>
       \A j \in DOMAIN last'.ids :
         LET b == last'.ids[j]
         IN /\ b \in DOMAIN branchStats'
            /\ branchStats'[b].hitCount = Counts(b).hit + 1
            /\ branchStats'[b].missCount = Counts(b).miss]_vars

\* C14: what getBranchStats returned is independent of the collector: a
\* caller adding or deleting keys of it, or assigning hitCount or missCount
\* of a record reached through it, leaves the table, and so what
\* getBranchStats and getExecutionSummary return afterwards, as they were.
C14_CopyIsIndependent ==
  [][last'.op = "mutateCopy" =>
       /\ branchStats' = branchStats
       /\ getExecutionSummary(Self)' = getExecutionSummary(Self)]_vars

\* C16: no operation of the query surface, called through
\* window.__RUNTIME_COVERAGE__ after construction, raises.
C16_QuerySurfaceCallable ==
  /\ window.coverage # {} => QuerySurface \subseteq window.coverage
  /\ last.op # "TypeError"

\* C19: exportData is a pure read: the call leaves the collector's fields
\* and the session id as they were, and a second call made with nothing in
\* between returns the same branchStats, executionSummary and sessionId as
\* the first.
C19_ExportIsPureRead ==
  /\ [][last'.op = "exportData" =>
          /\ UNCHANGED <<collectorVars, sessionId>>
          /\ last.op = "exportData" => last'.ret = last.ret]_vars
  /\ [](last.op = "exportData" => exportData(Self).ret = last.ret)

C19_Witness ==
  /\ last.op = "exportData"
  /\ DOMAIN branchStats # {}
  /\ last.ret.branchStats = branchStats
  /\ last.ret.executionSummary.summary.totalBranches = 1
  /\ last.ret.sessionId = sessionId

\* C17: for every table the records getExecutionSummary counts as hot are the
\* ones findHotPaths() returns and the ones the execution tree counts as hot,
\* and likewise for cold with findColdPaths().
C17_OneHotColdPredicate ==
  /\ SummaryHot(branchStats) = findHotPaths(branchStats, 100)
  /\ SummaryHot(branchStats) = TreeHot(branchStats)
  /\ SummaryCold(branchStats) = findColdPaths(branchStats, 5)
  /\ SummaryCold(branchStats) = TreeCold(branchStats)

\* C18: the coverageRate of getExecutionSummary is the fraction
\* hitBranches / totalBranches of the records with hitCount > 0 among all
\* records, lies between 0 and 1 in every reachable state (after importData
\* too), and is 0 when the table is empty.
C18_CoverageRateInUnitInterval ==
  LET s    == getExecutionSummary(Self).summary
      rate == s.coverageRate
  IN /\ s.totalBranches = Cardinality(DOMAIN branchStats)
     /\ s.hitBranches = Cardinality({ b \in DOMAIN branchStats : branchStats[b].hitCount > 0 })
     /\ rate[2] > 0
     /\ 0 <= rate[1] /\ rate[1] <= rate[2]
     /\ DOMAIN branchStats = {} => rate[1] = 0
     /\ DOMAIN branchStats # {} => rate = <<s.hitBranches, s.totalBranches>>

C18_Witness ==
  /\ last.op = "importData"
  /\ getExecutionSummary(Self).summary.coverageRate = <<1, 2>>

\* C20: a failed analytics report, whether the network call rejects or
\* throws, from the timer or from the unload hook, is caught and only logged:
\* it writes one warning, nothing escapes the callback, and the table and the
\* gate's counters stay as they were.
C20_ReportFailureIsCaught ==
  [][(last'.op = "report" /\ last'.path \notin {"skipped", "noEndpoint"}
        /\ last'.outcome # "resolved") =>
       /\ window'.uncaught = window.uncaught
       /\ window'.warnings = window.warnings + 1
       /\ UNCHANGED collectorVars]_vars

\* a glob pattern against a path: ** stands for any sequence of whole
\* segments, * for any characters within one segment
RECURSIVE GlobMatches(_, _)
GlobMatches(p, s) ==
  IF p = << >> THEN s = << >>
  ELSE IF Len(p) >= 2 /\ p[1] = "*" /\ p[2] = "*"
  THEN LET rest == IF Len(p) >= 3 /\ p[3] = "/" THEN SubSeq(p, 4, Len(p)) ELSE SubSeq(p, 3, Len(p))
       IN \E k \in 0..Len(s) :
            /\ k = 0 \/ k = Len(s) \/ s[k] = "/"
            /\ GlobMatches(rest, SubSeq(s, k + 1, Len(s)))
  ELSE IF p[1] = "*"
  THEN \E k \in 0..Len(s) :
         /\ \A i \in 1..k : s[i] # "/"
         /\ GlobMatches(Tail(p), SubSeq(s, k + 1, Len(s)))
  ELSE s # << >> /\ s[1] = p[1] /\ GlobMatches(Tail(p), Tail(s))

\* C15: a file whose path matches one of the exclude patterns is left as it
\* was by the Babel plugin and by the Vite transform: none of its constructs
\* is rewritten or given a branch id.
C15_ExcludedFileUntouched ==
  (/\ last.op = "build"
   /\ \E k \in DOMAIN last.excludePatterns : GlobMatches(last.excludePatterns[k], last.path))
    => last.output = last.input

\* C28: after any updateConfig calls the sampling settings exportData reports
\* in config.sampling are the settings the gate applies to later events.
C28_ExportedSamplingIsApplied ==
  exportData(Self).ret.config.sampling = samplingConfig

\* C26: a condition && element, or a condition ? a : b, in a JSX expression
\* slot is instrumented once: one evaluation of it makes exactly one
\* recordBranchHit call.
C26_JsxSlotRecordsOnce ==
  (last.op = "exec" /\ last.construct = "JSXExpressionContainer" /\ ~last.raised)
    => last.recorded = 1

IsTopTen(top, count, fileStats, field) ==
  LET positive == { f \in DOMAIN fileStats : fileStats[f][field] > 0 }
      listed   == { top[i].file : i \in DOMAIN top }
  IN /\ listed \subseteq positive
     /\ \A i \in DOMAIN top :
          /\ count[i] = fileStats[top[i].file][field]
          /\ top[i].totalBranches = fileStats[top[i].file].total
     /\ \A i, j \in DOMAIN top : i < j => count[i] >= count[j] /\ top[i].file # top[j].file
     /\ Len(top) <= 10
     /\ Len(top) = IF Cardinality(positive) < 10 THEN Cardinality(positive) ELSE 10
     /\ \A f \in positive \ listed : \A i \in DOMAIN top : fileStats[f][field] <= count[i]

\* C23: topDeadCodeFiles lists only files with a dead record, by
\* non-increasing dead count, ten at most, omits no file with a larger count
\* than a listed one, and gives each file's dead count and total as the
\* rollup has them; likewise topHotPathFiles with the hot counts.
C23_TopFilesAreTheTop ==
  LET r == getExecutionSummary(Self)
  IN /\ IsTopTen(r.topDeadCodeFiles,
                 [i \in DOMAIN r.topDeadCodeFiles |-> r.topDeadCodeFiles[i].deadBranches],
                 r.fileStats, "dead")
     /\ IsTopTen(r.topHotPathFiles,
                 [i \in DOMAIN r.topHotPathFiles |-> r.topHotPathFiles[i].hotBranches],
                 r.fileStats, "hot")

C23_Witness ==
  LET r == getExecutionSummary(Self)
  IN /\ last.op = "getExecutionSummary"
     /\ Cardinality({ f \in DOMAIN r.fileStats : r.fileStats[f].dead > 0 }) > 10
     /\ Cardinality({ f \in DOMAIN r.fileStats : r.fileStats[f].hot > 0 }) > 10
     /\ Len(last.ret.topDeadCodeFiles) = 10
     /\ last.ret.topDeadCodeFiles[1].deadBranches > last.ret.topDeadCodeFiles[10].deadBranches

RECURSIVE SumOver(_, _)
SumOver(files, count) ==
  IF files = {} THEN 0
  ELSE LET f == CHOOSE x \in files : TRUE IN count[f] + SumOver(files \ {f}, count)

\* C27: the rollup of each file partitions its records: total = dead + hot +
\* cold + hit, the files' totals add up to totalBranches, and the files'
\* dead, hot and cold counts add up to the summary's deadBranches,
\* hotBranches and coldBranches.
C27_RollupPartitionsTable ==
  LET r  == getExecutionSummary(Self)
      fs == r.fileStats
      files == DOMAIN fs
  IN /\ \A f \in files : fs[f].total = fs[f].dead + fs[f].hot + fs[f].cold + fs[f].hit
     /\ SumOver(files, [f \in files |-> fs[f].total]) = r.summary.totalBranches
     /\ SumOver(files, [f \in files |-> fs[f].dead]) = r.summary.deadBranches
     /\ SumOver(files, [f \in files |-> fs[f].hot]) = r.summary.hotBranches
     /\ SumOver(files, [f \in files |-> fs[f].cold]) = r.summary.coldBranches

C27_Witness ==
  LET fs == getExecutionSummary(Self).fileStats
  IN /\ last.op = "importData"
     /\ \E f \in DOMAIN fs : fs[f].dead > 0 /\ fs[f].hot > 0 /\ fs[f].cold > 0 /\ fs[f].hit > 0

\* C25: the record recordBranchHit creates for the id that createBranchId
\* built from a file path, a line, a column, a type and an ordinal has that
\* path as its file, that line and that column, also when the path holds a
\* ':'.
C25_IdRoundTrip ==
  \A fileName \in RoundTripFiles, line \in RoundTripLines, column \in RoundTripColumns,
     type \in RoundTripTypes, counter \in 0..1 :
       LET b == createBranchId(fileName, line, column, type, counter)
       IN b \in DOMAIN branchStats =>
            /\ <<branchStats[b].file>> = fileName.rel
            /\ branchStats[b].line = line
            /\ branchStats[b].column = column

\* the types of the branch ids a built body carries
InstrumentedTypes == {"if", "ternary", "logical", "jsx-conditional", "jsx-ternary", "switch-case"}

\* C24: constructs without source position are instrumented without a
\* failure, and every branch id they are given, so every record they make,
\* carries line 0 and column 0; this for each of the six construct types.
C24_NoPositionIsZeroZero ==
  /\ \A b \in DOMAIN branchStats :
       /\ b[2] = "0" /\ b[3] = "0"
       /\ branchStats[b].line = 0 /\ branchStats[b].column = 0
       /\ branchStats[b].type \in InstrumentedTypes
  /\ last.op = "exec" => ~last.raised /\ last.recorded >= 1

C24_Witness ==
  /\ last.op = "exec"
  /\ { branchStats[b].type : b \in DOMAIN branchStats } = InstrumentedTypes


\* the ordinals an inserted call's id can carry: the id ends in type#ordinal
OrdinalsOf(call) ==
  { n \in 0..(3 * MaxPasses + 6) :
      call.branchId[Len(call.branchId)] = call.type \o "#" \o ToString(n) }

\* C22: in every pass over a file the ids carry the ordinals 0..k-1, k the
\* number of calls the pass inserted, each ordinal once, and the ids of the
\* pass are pairwise distinct; whatever files were passed over before, a
\* pass starts at 0, and two passes over the same file assign the same ids
\* to the same constructs
C22_OrdinalsOfAPass ==
  last.op = "pass" =>
    /\ \A p \in DOMAIN last.passes :
         LET calls == last.passes[p].calls
         IN /\ \A i \in DOMAIN calls : Cardinality(OrdinalsOf(calls[i])) = 1
            /\ UNION { OrdinalsOf(calls[i]) : i \in DOMAIN calls } = 0..(Len(calls) - 1)
            /\ \A i, j \in DOMAIN calls : i # j => calls[i].branchId # calls[j].branchId
    /\ \A p, q \in DOMAIN last.passes :
         last.passes[p].file = last.passes[q].file =>
           last.passes[p].calls = last.passes[q].calls

\* a file of seven ids is passed over twice, another file in between
C22_Witness ==
  /\ last.op = "pass"
  /\ Len(last.passes) = 3
  /\ last.passes[1].file = last.passes[3].file
  /\ last.passes[1].file # last.passes[2].file
  /\ Len(last.passes[1].calls) = 7
  /\ Len(last.passes[2].calls) >= 2


HookOps == {"hook.refreshData", "hook.clearStats", "hook.exportData"}

\* C21: while window.__RUNTIME_COVERAGE__ is absent no dev tools helper and no
\* operation of the hook raises; findDeadCode, findHotPaths and
\* findColdPaths return the empty list and generateReport its default (null),
\* and the hook's branchStats is empty and its isCollecting false
C21_AbsentCollectorGivesDefaults ==
  window.coverage = {} =>
    /\ hook.branchStats = << >> /\ ~hook.isCollecting
    /\ last.op \in HookOps => ~last.raised
    /\ last.op \in DevHelpers =>
         /\ ~last.raised
         /\ last.ret = IF last.op = "generateReport" THEN << >> ELSE {}

\* the hook refreshes while the collector script is still on its way
C21_Witness ==
  /\ window.coverage = {}
  /\ window.script = "loading"
  /\ last.op = "hook.refreshData"
  /\ ~last.installed


\* C29: given the calls the core collector is given, at the same times and
\* from the same configuration, the emitted collector takes the same return
\* in every recordBranchHit call and holds the same table after every call
C29_EmittedBehavesLikeCore ==
  /\ emitted.self.branchStats = branchStats
  /\ last.op = "recordBranchHit" => emitted.path = last.path

====
